---- MODULE Spec2Model ----
(***************************************************************************)
(* Hypernote pages: the expression evaluator (lib/evaluator), the page     *)
(* context hook (hooks/usePageContext.ts: form state, defaults, action     *)
(* execution) and the node renderer (components/NodeRenderer.tsx).         *)
(*                                                                         *)
(* JavaScript strings are sequences of one-character strings, so that the  *)
(* character loops of the evaluator are modelled as written.  JavaScript   *)
(* values are tagged records (field t is the typeof-like tag).  An         *)
(* operation that raises in JavaScript yields the value Throw, which every *)
(* caller without a try/catch passes on.                                   *)
(***************************************************************************)
EXTENDS Integers, Sequences, FiniteSets, Bags, TLC

VARIABLES
  \* ---- evaluator runs (SpecEval)
  expr,         \* the expression string handed to evaluate
  escope,       \* the scope handed to evaluate
  result,       \* Pending, or what evaluate returned
  clock,        \* Date.now() / 1000, whole seconds
  \* ---- one document instance of usePageContext (Spec)
  form,         \* useState form: field name -> stored value
  isPublishing, \* useState isPublishing
  queryResult,  \* what useNostrQuery(query) currently returns
  isReadonly,   \* nostr.isReadonly
  pageScope,    \* the scope of the last committed render (what Button and
                \* the executeAction closure read)
  inflight,     \* the executeAction calls suspended at an await
  lastDone,     \* the executeAction call the last step ended: how it ended
                \* and what it showed (NoDone when the step ended none)
  entered,      \* what the user typed last into each field edited since the
                \* form was last reset
  offered,      \* the edited fields for which the defaults effects run by the
                \* last step had a value
  \* ---- one rendered document (SpecRender)
  doc,          \* the document AST
  rscope,       \* the scope the document is rendered against
  output,       \* the committed tree of output nodes
  \* ---- the imports of one document (SpecImports)
  importEntries, \* Object.entries(imports): <<local name, address>> in order
  component,     \* what each usePage call of useComponents returns: the
                 \* event, or undefined
  failed,        \* the usePage calls whose fetch ended without an event
  \* ---- one run of executeAction up to the signer (SpecAction)
  actDef,        \* actionDef: frontmatter.actions[actionName]
  actScope,      \* evalScope
  template,      \* Pending, or the eventTemplate handed to signEvent
  \* ---- the editor and the home list of one session (SpecSession)
  editorPublishing, \* useState isPublishing of Editor
  copying,          \* useState copying of Home: a page id, or "none"
  requests,         \* the handlePublish and handleCopyToDrafts calls
                    \* suspended at an await
  \* ---- the query of one document (SpecQueries)
  declared,         \* the frontmatter prop of usePageContext
  delivered,        \* what useNostrQuery(query) currently returns
  scopeQueries      \* useMemo queries: the object the scope carries

evalVars == <<expr, escope, result, clock>>
renderVars == <<doc, rscope, output>>
pageVars == <<form, isPublishing, queryResult, isReadonly, pageScope, inflight,
              lastDone, entered, offered>>
importVars == <<importEntries, component, failed>>
actionVars == <<actDef, actScope, template>>
sessionVars == <<editorPublishing, copying, requests>>
queryVars == <<declared, delivered, scopeQueries>>

\* ------------------------------------------------------------------------
\* JavaScript values
\* ------------------------------------------------------------------------
Undef == [t |-> "undefined"]
Null == [t |-> "null"]
Throw == [t |-> "throw"]
NaN == [t |-> "nan"]
Str(s) == [t |-> "string", s |-> s]
Num(n) == [t |-> "number", n |-> n]
Bool(b) == [t |-> "boolean", b |-> b]
Obj(f) == [t |-> "object", o |-> f]
Arr(a) == [t |-> "array", a |-> a]
Fn == [t |-> "function"]
Pending == [t |-> "pending"]

EmptyObj == Obj(<<>>)

IsStr(v) == v.t = "string"
IsNum(v) == v.t = "number"
IsArr(v) == v.t = "array"
IsObj(v) == v.t = "object"
IsThrow(v) == v.t = "throw"
IsNullish(v) == v.t \in {"undefined", "null"}

\* JavaScript truthiness (what `!v`, `v || d` and `if (v)` test).
Truthy(v) ==
  CASE v.t \in {"undefined", "null", "nan"} -> FALSE
    [] v.t = "string" -> v.s # <<>>
    [] v.t = "number" -> v.n # 0
    [] v.t = "boolean" -> v.b
    [] OTHER -> TRUE

\* ------------------------------------------------------------------------
\* Strings
\* ------------------------------------------------------------------------
Digits == <<"0", "1", "2", "3", "4", "5", "6", "7", "8", "9">>
IsDigit(c) == \E i \in 1..10 : Digits[i] = c
DigitVal(c) == (CHOOSE i \in 1..10 : Digits[i] = c) - 1
IsSpace(c) == c = " "

Min2(a, b) == IF a < b THEN a ELSE b
Max2(a, b) == IF a > b THEN a ELSE b

\* String.prototype.slice(a, b): negative indices count from the end.
Slice(s, a, b) ==
  LET n == Len(s)
      from == IF a < 0 THEN Max2(n + a, 0) ELSE Min2(a, n)
      to == IF b < 0 THEN Max2(n + b, 0) ELSE Min2(b, n)
  IN  IF from >= to THEN <<>> ELSE SubSeq(s, from + 1, to)

RECURSIVE TrimStart(_)
TrimStart(s) ==
  IF s # <<>> /\ IsSpace(Head(s)) THEN TrimStart(Tail(s)) ELSE s

RECURSIVE TrimEnd(_)
TrimEnd(s) ==
  IF s # <<>> /\ IsSpace(s[Len(s)]) THEN TrimEnd(SubSeq(s, 1, Len(s) - 1)) ELSE s

Trim(s) == TrimEnd(TrimStart(s))

StartsWith(s, p) == Len(s) >= Len(p) /\ SubSeq(s, 1, Len(p)) = p

\* String.prototype.indexOf / lastIndexOf for one character (0-based, -1 if none).
IndexOf(s, c) ==
  IF \E i \in 1..Len(s) : s[i] = c
    THEN (CHOOSE i \in 1..Len(s) : s[i] = c /\ \A j \in 1..(i - 1) : s[j] # c) - 1
    ELSE -1

LastIndexOf(s, c) ==
  IF \E i \in 1..Len(s) : s[i] = c
    THEN (CHOOSE i \in 1..Len(s) : s[i] = c /\ \A j \in (i + 1)..Len(s) : s[j] # c) - 1
    ELSE -1

\* String.prototype.split(c) for one character.
RECURSIVE SplitOn(_, _, _)
SplitOn(s, c, cur) ==
  IF s = <<>> THEN <<cur>>
  ELSE IF Head(s) = c THEN <<cur>> \o SplitOn(Tail(s), c, <<>>)
  ELSE SplitOn(Tail(s), c, Append(cur, Head(s)))

\* String.prototype.replace(/c/g, "") for one character.
RemoveChar(s, c) ==
  LET Kept(x) == x # c
  IN  SelectSeq(s, Kept)

\* Array.prototype.filter((p) => p.trim()) on a list of strings.
RECURSIVE DropBlank(_)
DropBlank(parts) ==
  IF parts = <<>> THEN <<>>
  ELSE IF Trim(Head(parts)) = <<>> THEN DropBlank(Tail(parts))
  ELSE <<Head(parts)>> \o DropBlank(Tail(parts))

AllDigits(s) == s # <<>> /\ \A i \in 1..Len(s) : IsDigit(s[i])

RECURSIVE DigitsVal(_, _)
DigitsVal(s, acc) ==
  IF s = <<>> THEN acc ELSE DigitsVal(Tail(s), acc * 10 + DigitVal(Head(s)))

RECURSIVE NatToStr(_)
NatToStr(n) ==
  IF n < 10 THEN <<Digits[n + 1]>> ELSE NatToStr(n \div 10) \o <<Digits[(n % 10) + 1]>>

IntToStr(n) == IF n < 0 THEN <<"-">> \o NatToStr(-n) ELSE NatToStr(n)

\* Number(s) on the strings of the model: surrounding blanks are dropped, an
\* optionally signed run of decimal digits is that integer, the empty string
\* is 0, anything else is NaN (fractions, exponents and hex do not occur).
ToNumberStr(s) ==
  LET u == Trim(s)
  IN  IF u = <<>> THEN Num(0)
      ELSE IF AllDigits(u) THEN Num(DigitsVal(u, 0))
      ELSE IF Head(u) = "-" /\ AllDigits(Tail(u)) THEN Num(-DigitsVal(Tail(u), 0))
      ELSE NaN

\* The longest run of digits s starts with.
RECURSIVE DigitPrefix(_)
DigitPrefix(s) ==
  IF s # <<>> /\ IsDigit(Head(s)) THEN <<Head(s)>> \o DigitPrefix(Tail(s)) ELSE <<>>

\* parseInt(s, 10): leading blanks, an optional sign, then the digit prefix.
ParseIntStr(s) ==
  LET u == TrimStart(s)
      neg == u # <<>> /\ Head(u) = "-"
      body == IF u # <<>> /\ Head(u) \in {"-", "+"} THEN Tail(u) ELSE u
      ds == DigitPrefix(body)
  IN  IF ds = <<>> THEN NaN
      ELSE Num(IF neg THEN -DigitsVal(ds, 0) ELSE DigitsVal(ds, 0))

\* String(v)
JSString(v) ==
  CASE v.t = "string" -> v.s
    [] v.t = "number" -> IntToStr(v.n)
    [] v.t = "nan" -> <<"N","a","N">>
    [] v.t = "boolean" -> IF v.b THEN <<"t","r","u","e">> ELSE <<"f","a","l","s","e">>
    [] v.t = "undefined" -> <<"u","n","d","e","f","i","n","e","d">>
    [] v.t = "null" -> <<"n","u","l","l">>
    [] v.t = "object" -> <<"[","o","b","j","e","c","t"," ","O","b","j","e","c","t","]">>
    [] v.t = "array" -> <<"[","a","r","r","a","y","]">>
    [] OTHER -> <<"[","f","u","n","c","t","i","o","n","]">>

\* parseInt(v, 10) of any value: the value is first turned into a string.
ParseInt(v) == ParseIntStr(JSString(v))

\* The number a value is compared or subtracted as (ToNumber).
ToNumber(v) ==
  CASE v.t = "number" -> v
    [] v.t = "string" -> ToNumberStr(v.s)
    [] v.t = "boolean" -> Num(IF v.b THEN 1 ELSE 0)
    [] v.t = "null" -> Num(0)
    [] OTHER -> NaN

\* ------------------------------------------------------------------------
\* Property access and JSON
\* ------------------------------------------------------------------------
HasKey(f, k) == k \in DOMAIN f

\* v[k] for a string key k.  Reading a property of undefined or null raises
\* a TypeError; strings and arrays have length and index properties.
GetProp(v, k) ==
  CASE IsNullish(v) -> Throw
    [] v.t = "object" -> IF HasKey(v.o, k) THEN v.o[k] ELSE Undef
    [] v.t = "array" ->
         IF k = <<"l","e","n","g","t","h">> THEN Num(Len(v.a))
         ELSE IF AllDigits(k) /\ DigitsVal(k, 0) < Len(v.a) THEN v.a[DigitsVal(k, 0) + 1]
         ELSE Undef
    [] v.t = "string" ->
         IF k = <<"l","e","n","g","t","h">> THEN Num(Len(v.s))
         ELSE IF AllDigits(k) /\ DigitsVal(k, 0) < Len(v.s) THEN Str(<<v.s[DigitsVal(k, 0) + 1]>>)
         ELSE Undef
    [] OTHER -> Undef

\* v[i] for a numeric index i.
GetIndex(v, i) ==
  CASE IsNullish(v) -> Throw
    [] v.t = "array" -> IF i >= 0 /\ i < Len(v.a) THEN v.a[i + 1] ELSE Undef
    [] v.t = "string" -> IF i >= 0 /\ i < Len(v.s) THEN Str(<<v.s[i + 1]>>) ELSE Undef
    [] v.t = "object" -> IF HasKey(v.o, IntToStr(i)) THEN v.o[IntToStr(i)] ELSE Undef
    [] OTHER -> Undef

\* The JSON texts of the model that are objects or arrays, with the value
\* JSON.parse gives for each.
JSONDocs ==
  { <<<<"{","\"","n","a","m","e","\"",":","\"","B","o","b","\"","}">>, Obj([k \in {<<"n","a","m","e">>} |-> Str(<<"B","o","b">>)])>>,
    <<<<"[","1",",","2","]">>, Arr(<<Num(1), Num(2)>>)>>,
    <<<<"{","\"","a","\"",":","\"","1","\"",",","\"","b","\"",":","\"","2","\"","}">>,
      Obj([k \in {<<"a">>, <<"b">>} |-> IF k = <<"a">> THEN Str(<<"1">>) ELSE Str(<<"2">>)])>>,
    <<<<"{","}">>, EmptyObj>> }

\* JSON.parse(s): a SyntaxError (Throw) for a text that is not JSON.
JSONParse(s) ==
  LET u == Trim(s)
  IN  IF \E d \in JSONDocs : d[1] = u THEN (CHOOSE d \in JSONDocs : d[1] = u)[2]
      ELSE IF AllDigits(u) THEN Num(DigitsVal(u, 0))
      ELSE IF u = <<"t","r","u","e">> THEN Bool(TRUE)
      ELSE IF u = <<"f","a","l","s","e">> THEN Bool(FALSE)
      ELSE IF u = <<"n","u","l","l">> THEN Null
      ELSE IF Len(u) >= 2 /\ Head(u) = "\"" /\ u[Len(u)] = "\""
                /\ \A i \in 2..(Len(u) - 1) : u[i] \notin {"\"", "\\"}
        THEN Str(SubSeq(u, 2, Len(u) - 1))
      ELSE Throw

\* ------------------------------------------------------------------------
\* The expression evaluator
\* ------------------------------------------------------------------------
Quotes == {"\"", "'"}
Openers == {"(", "[", "{"}
Closers == {")", "]", "}"}

DepthAfter(depth, char) ==
  IF char \in Openers THEN depth + 1
  ELSE IF char \in Closers THEN depth - 1
  ELSE depth

\* The loop variables of splitByDefault and splitByPipe before the first
\* character (i is 1-based).
LoopStart == [i |-> 1, parts |-> <<>>, current |-> <<>>, depth |-> 0,
              inString |-> FALSE, stringChar |-> ""]

\* One pass of the loop of splitByDefault, over the character at st.i.
DefaultStep(e, st) ==
  LET char == e[st.i]
      next == IF st.i < Len(e) THEN e[st.i + 1] ELSE ""
      d2 == DepthAfter(st.depth, char)
  IN  IF char \in Quotes /\ ~st.inString
        THEN [st EXCEPT !.i = @ + 1, !.current = Append(@, char),
                        !.inString = TRUE, !.stringChar = char]
      ELSE IF char = st.stringChar /\ st.inString
        THEN [st EXCEPT !.i = @ + 1, !.current = Append(@, char), !.inString = FALSE]
      ELSE IF st.inString
        THEN [st EXCEPT !.i = @ + 1, !.current = Append(@, char)]
      ELSE IF char = "/" /\ next = "/" /\ d2 = 0
        THEN [st EXCEPT !.i = @ + 2, !.parts = Append(@, st.current),
                        !.current = <<>>, !.depth = d2]
      ELSE [st EXCEPT !.i = @ + 1, !.current = Append(@, char), !.depth = d2]

\* The loop of splitByDefault.
RECURSIVE SplitByDefaultLoop(_, _)
SplitByDefaultLoop(e, st) ==
  IF st.i > Len(e) THEN Append(st.parts, st.current)
  ELSE SplitByDefaultLoop(e, DefaultStep(e, st))

splitByDefault(e) == DropBlank(SplitByDefaultLoop(e, LoopStart))

\* One pass of the loop of splitByPipe, over the character at st.i.
PipeStep(e, st) ==
  LET char == e[st.i]
      d2 == DepthAfter(st.depth, char)
  IN  IF char \in Quotes /\ ~st.inString
        THEN [st EXCEPT !.i = @ + 1, !.current = Append(@, char),
                        !.inString = TRUE, !.stringChar = char]
      ELSE IF char = st.stringChar /\ st.inString
        THEN [st EXCEPT !.i = @ + 1, !.current = Append(@, char), !.inString = FALSE]
      ELSE IF st.inString
        THEN [st EXCEPT !.i = @ + 1, !.current = Append(@, char)]
      ELSE IF char = "|" /\ d2 = 0
        THEN [st EXCEPT !.i = @ + 1, !.parts = Append(@, st.current),
                        !.current = <<>>, !.depth = d2]
      ELSE [st EXCEPT !.i = @ + 1, !.current = Append(@, char), !.depth = d2]

\* The loop of splitByPipe.
RECURSIVE SplitByPipeLoop(_, _)
SplitByPipeLoop(e, st) ==
  IF st.i > Len(e) THEN Append(st.parts, st.current)
  ELSE SplitByPipeLoop(e, PipeStep(e, st))

splitByPipe(e) == DropBlank(SplitByPipeLoop(e, LoopStart))

\* A path part: a property name or a numeric index.
NamePart(s) == [k |-> "name", s |-> s]
IndexPart(n) == [k |-> "index", n |-> n]

\* The loop variables of parsePath before the first character.
PathStart == [i |-> 1, parts |-> <<>>, current |-> <<>>, inBracket |-> FALSE]

\* One pass of the loop of parsePath, over the character at st.i.
PathStep(p, st) ==
  LET char == p[st.i]
      flushed == IF st.current # <<>> THEN Append(st.parts, NamePart(st.current))
                 ELSE st.parts
  IN  IF char = "."
        THEN [st EXCEPT !.i = @ + 1, !.parts = flushed, !.current = <<>>]
      ELSE IF char = "["
        THEN [st EXCEPT !.i = @ + 1, !.parts = flushed, !.current = <<>>,
                        !.inBracket = TRUE]
      ELSE IF char = "]"
        THEN IF st.inBracket /\ st.current # <<>>
               THEN LET index == ParseIntStr(st.current)
                    IN  [st EXCEPT !.i = @ + 1,
                           !.parts = IF index = NaN THEN @ ELSE Append(@, IndexPart(index.n)),
                           !.current = <<>>, !.inBracket = FALSE]
               ELSE [st EXCEPT !.i = @ + 1, !.inBracket = FALSE]
      ELSE [st EXCEPT !.i = @ + 1, !.current = Append(@, char)]

\* The loop of parsePath over the path without its ? characters.
RECURSIVE ParsePathLoop(_, _)
ParsePathLoop(p, st) ==
  IF st.i > Len(p)
    THEN IF st.current # <<>> THEN Append(st.parts, NamePart(st.current)) ELSE st.parts
  ELSE ParsePathLoop(p, PathStep(p, st))

parsePath(path) == ParsePathLoop(RemoveChar(path, "?"), PathStart)

\* One step of the path loop of resolveValue, without its guard.
StepInto(current, part) ==
  IF part.k = "index" THEN GetIndex(current, part.n) ELSE GetProp(current, part.s)

\* The path loop without its test for undefined and null.
RECURSIVE WalkPathUnguarded(_, _)
WalkPathUnguarded(current, parts) ==
  IF parts = <<>> THEN current
  ELSE IF IsThrow(current) THEN Throw
  ELSE WalkPathUnguarded(StepInto(current, Head(parts)), Tail(parts))

\* The path loop of resolveValue: stop with undefined at undefined or null.
RECURSIVE WalkPath(_, _)
WalkPath(current, parts) ==
  IF parts = <<>> THEN current
  ELSE IF IsThrow(current) THEN Throw
  ELSE IF IsNullish(current) THEN Undef
  ELSE WalkPath(StepInto(current, Head(parts)), Tail(parts))

\* Object.keys(scope), as the log line of resolveValue calls it: a TypeError
\* for undefined or null.
ObjectKeysRaises(scope) == IsNullish(scope)

\* The body of resolveValue, with path.trim() and Number(path) computed once.
ResolveTrimmed(path, trimmed, num, scope) ==
  IF path # <<>> /\ Head(path) \in Quotes THEN Str(Slice(path, 1, -1))
  ELSE IF trimmed = <<"t","r","u","e">> THEN Bool(TRUE)
  ELSE IF trimmed = <<"f","a","l","s","e">> THEN Bool(FALSE)
  ELSE IF trimmed = <<"n","u","l","l">> THEN Null
  ELSE IF trimmed = <<"u","n","d","e","f","i","n","e","d">> THEN Undef
  ELSE IF num # NaN /\ trimmed # <<>> THEN num
  ELSE IF ObjectKeysRaises(scope) THEN Throw
  ELSE WalkPath(scope, parsePath(path))

resolveValue(path, scope) == ResolveTrimmed(path, Trim(path), ToNumberStr(path), scope)

\* A relative time whose first bucket includes the 60th second.
formatRelativeTimeInclusive(timestamp) ==
  LET diff == clock - timestamp
  IN  IF diff <= 60 THEN <<"j","u","s","t"," ","n","o","w">>
      ELSE IF diff <= 3600 THEN IntToStr(diff \div 60) \o <<"m"," ","a","g","o">>
      ELSE IF diff <= 86400 THEN IntToStr(diff \div 3600) \o <<"h"," ","a","g","o">>
      ELSE IF diff <= 604800 THEN IntToStr(diff \div 86400) \o <<"d"," ","a","g","o">>
      ELSE IntToStr(diff \div 604800) \o <<"w"," ","a","g","o">>

\* formatRelativeTime(timestamp), with now read from the clock.
formatRelativeTime(timestamp) ==
  LET diff == clock - timestamp
  IN  IF diff < 60 THEN <<"j","u","s","t"," ","n","o","w">>
      ELSE IF diff < 3600 THEN IntToStr(diff \div 60) \o <<"m"," ","a","g","o">>
      ELSE IF diff < 86400 THEN IntToStr(diff \div 3600) \o <<"h"," ","a","g","o">>
      ELSE IF diff < 604800 THEN IntToStr(diff \div 86400) \o <<"d"," ","a","g","o">>
      ELSE IntToStr(diff \div 604800) \o <<"w"," ","a","g","o">>

\* Date.prototype.toLocaleString and its date and time variants: the text
\* depends on the locale, so it is kept as the format's name and the seconds.
LocaleText(format, timestamp) == format \o <<":">> \o IntToStr(timestamp)

\* case "format_date"
FormatStamp(value, timestamp, format) ==
      IF timestamp = NaN THEN value
      ELSE IF format = Str(<<"d","a","t","e","t","i","m","e">>) THEN Str(LocaleText(<<"d","a","t","e","t","i","m","e">>, timestamp.n))
      ELSE IF format = Str(<<"d","a","t","e">>) THEN Str(LocaleText(<<"d","a","t","e">>, timestamp.n))
      ELSE IF format = Str(<<"t","i","m","e">>) THEN Str(LocaleText(<<"t","i","m","e">>, timestamp.n))
      ELSE IF format = Str(<<"r","e","l","a","t","i","v","e">>) THEN Str(formatRelativeTime(timestamp.n))
      ELSE Str(LocaleText(<<"d","a","t","e","t","i","m","e">>, timestamp.n))

FormatDate(value, args) ==
  FormatStamp(value, IF IsNum(value) THEN value ELSE ParseInt(value),
              IF args # <<>> /\ Truthy(args[1]) THEN args[1] ELSE Str(<<"d","a","t","e","t","i","m","e">>))

\* case "truncate"
TruncateTo(value, n) ==
  IF ~IsStr(value) THEN value
  ELSE IF n # NaN /\ Len(value.s) <= n.n THEN value
  ELSE Str(Slice(value.s, 0, IF n = NaN THEN 0 ELSE n.n - 3) \o <<".",".",".">>)

Truncate(value, args) ==
  TruncateTo(value, ToNumber(IF args # <<>> /\ Truthy(args[1]) THEN args[1] ELSE Num(100)))

\* case "fromjson": JSON.parse inside try/catch.
Caught(parsed, fallback) == IF IsThrow(parsed) THEN fallback ELSE parsed

FromJson(value) ==
  IF IsStr(value) THEN Caught(JSONParse(value.s), Undef) ELSE value

\* Upper and lower case of the letters the model's strings use.
LowerLetters == <<"a","b","c","d","e","f","g","h","i","j","k","l","m","n","o","p","q","r","s","t","u","v","w","x","y","z">>
UpperLetters == <<"A","B","C","D","E","F","G","H","I","J","K","L","M","N","O","P","Q","R","S","T","U","V","W","X","Y","Z">>
UpperChar(c) ==
  IF \E i \in 1..26 : LowerLetters[i] = c
    THEN UpperLetters[CHOOSE i \in 1..26 : LowerLetters[i] = c] ELSE c
LowerChar(c) ==
  IF \E i \in 1..26 : UpperLetters[i] = c
    THEN LowerLetters[CHOOSE i \in 1..26 : UpperLetters[i] = c] ELSE c

applyBuiltinFilter(name, value, args) ==
  CASE name = <<"f","i","r","s","t">> -> IF IsArr(value) THEN GetIndex(value, 0) ELSE value
    [] name = <<"l","a","s","t">> -> IF IsArr(value) THEN GetIndex(value, Len(value.a) - 1) ELSE value
    [] name = <<"f","r","o","m","j","s","o","n">> -> FromJson(value)
    [] name = <<"f","o","r","m","a","t","_","d","a","t","e">> -> FormatDate(value, args)
    [] name = <<"t","r","u","n","c","a","t","e">> -> Truncate(value, args)
    [] name = <<"u","p","p","e","r","c","a","s","e">> ->
         IF IsStr(value) THEN Str([i \in 1..Len(value.s) |-> UpperChar(value.s[i])]) ELSE value
    [] name = <<"l","o","w","e","r","c","a","s","e">> ->
         IF IsStr(value) THEN Str([i \in 1..Len(value.s) |-> LowerChar(value.s[i])]) ELSE value
    [] name = <<"l","e","n","g","t","h">> ->
         IF IsArr(value) THEN Num(Len(value.a))
         ELSE IF IsStr(value) THEN Num(Len(value.s))
         ELSE Num(0)
    [] OTHER -> value

\* The arguments of a filter call: split on commas, each resolved as a value.
ResolveArgs(argsStr, scope) ==
  IF argsStr = <<>> THEN <<>>
  ELSE LET argParts == SplitOn(argsStr, ",", <<>>)
       IN  [i \in 1..Len(argParts) |-> resolveValue(Trim(argParts[i]), scope)]

\* The call of applyBuiltinFilter; a raise while resolving an argument
\* leaves applyFilter.
ApplyResolved(filterName, value, args) ==
  IF IsThrow(value) \/ \E i \in 1..Len(args) : IsThrow(args[i]) THEN Throw
  ELSE applyBuiltinFilter(filterName, value, args)

\* applyFilter from parenIndex on.
ApplyAt(filterExpr, parenIndex, value, scope) ==
  ApplyResolved(
    IF parenIndex = -1 THEN Trim(filterExpr) ELSE Trim(Slice(filterExpr, 0, parenIndex)),
    value,
    ResolveArgs(IF parenIndex = -1 THEN <<>>
                ELSE Trim(Slice(filterExpr, parenIndex + 1, LastIndexOf(filterExpr, ")"))),
                scope))

applyFilter(filterExpr, value, scope) ==
  ApplyAt(filterExpr, IndexOf(filterExpr, "("), value, scope)

RECURSIVE ApplyFilters(_, _, _)
ApplyFilters(filters, value, scope) ==
  IF filters = <<>> THEN value
  ELSE ApplyFilters(Tail(filters), applyFilter(Trim(Head(filters)), value, scope), scope)

\* evaluatePart from pipeParts on.
EvaluatePipe(pipeParts, scope) ==
  IF pipeParts = <<>> THEN Undef
  ELSE ApplyFilters(Tail(pipeParts), resolveValue(Trim(pipeParts[1]), scope), scope)

evaluatePart(e, scope) == EvaluatePipe(splitByPipe(e), scope)

\* expression.trim().replace(/^{|}$/g, "").trim()
DropOpen(u) == IF u # <<>> /\ Head(u) = "{" THEN Tail(u) ELSE u
DropClose(a) == IF a # <<>> /\ a[Len(a)] = "}" THEN SubSeq(a, 1, Len(a) - 1) ELSE a
Cleaned(expression) == Trim(DropClose(DropOpen(Trim(expression))))

\* The loop of evaluate over the default alternatives.
RECURSIVE FirstPresent(_, _)
\* A pass that takes the first truthy alternative.
PresentOrNextTruthy(r, parts, scope) ==
  IF IsThrow(r) THEN Throw
  ELSE IF Truthy(r) THEN r
  ELSE FirstPresent(Tail(parts), scope)

\* One pass of the loop: r is the result of the first alternative.
PresentOrNext(r, parts, scope) ==
  IF IsThrow(r) THEN Throw
  ELSE IF r # Undef /\ r # Null /\ r # Str(<<>>) THEN r
  ELSE FirstPresent(Tail(parts), scope)

FirstPresent(parts, scope) ==
  IF parts = <<>> THEN Undef
  ELSE PresentOrNext(evaluatePart(Trim(Head(parts)), scope), parts, scope)

evaluate(expression, scope) ==
  IF expression = <<>> THEN Undef
  ELSE FirstPresent(splitByDefault(Cleaned(expression)), scope)

\* ------------------------------------------------------------------------
\* Evaluator runs: one call of evaluate on an expression and a scope
\* ------------------------------------------------------------------------
MaxFilters == 1
ClockStart == 1700000

\* Value expressions.
Atoms ==
  { <<"n","o","t","e",".","c","o","n","t","e","n","t">>, <<"n","o","t","e",".","n","o",".","x">>, <<"n","o","t","e","?",".","a","u","t","h","o","r","?",".","n","a","m","e">>,
    <<"q","u","e","r","i","e","s",".","e","v","e","n","t","s","[","0","]",".","c","o","n","t","e","n","t">>, <<"q","u","e","r","i","e","s",".","e","v","e","n","t","s",".","[","5","]",".","i","d">>, <<"q","u","e","r","i","e","s",".","e","v","e","n","t","s">>,
    <<"'","A","n","o","n","'">>, <<"'","'">>, <<"4","2">>, <<"n","u","l","l">>, <<"u","n","d","e","f","i","n","e","d">>, <<"n","o","t","e",".","j","s","o","n">>, <<"n","o","t","e",".","b","a","d">>,
    <<"n","o","t","e",".","c","r","e","a","t","e","d","_","a","t">>, <<"n","o",".","a","t",".","a","l","l">>, <<"f","o","r","m",".","x">> }

\* Filter calls, well-formed and not.
FilterCalls ==
  { <<"f","i","r","s","t">>, <<"l","a","s","t">>, <<"f","r","o","m","j","s","o","n">>, <<"t","r","u","n","c","a","t","e","(","5",")">>, <<"t","r","u","n","c","a","t","e">>, <<"t","r","u","n","c","a","t","e","(","'","x","'",")">>,
    <<"t","r","u","n","c","a","t","e","(","n","o","t","e",".","n","o",".","x",")">>, <<"t","r","u","n","c","a","t","e","(">>, <<"u","p","p","e","r","c","a","s","e">>, <<"l","o","w","e","r","c","a","s","e">>,
    <<"l","e","n","g","t","h">>, <<"f","o","r","m","a","t","_","d","a","t","e","(","'","r","e","l","a","t","i","v","e","'",")">>, <<"f","o","r","m","a","t","_","d","a","t","e">>, <<"f","o","r","m","a","t","_","d","a","t","e","(","n","o","t","e",".","n","o",".","y",")">>,
    <<"b","o","g","u","s">>, <<"f","i","r","s","t","(",")">> }

\* Alternatives that may follow a // operator.
DefaultAtoms == { <<"'","A","n","o","n","'">>, <<"n","o","t","e",".","c","o","n","t","e","n","t">>, <<"u","n","d","e","f","i","n","e","d">>, <<"n","o","t","e",".","n","o",".","x">> }

\* The differences now - timestamp the relative format is evaluated for, and
\* the expression that formats the timestamp d seconds before the clock.
RelativeDiffs ==
  { -5, 0, 59, 60, 61, 3599, 3600, 86399, 86400, 604799, 604800, 1209600 }
RelativeExpr(d) == IntToStr(ClockStart - d) \o <<" ","|"," ","f","o","r","m","a","t","_","d","a","t","e","(","'","r","e","l","a","t","i","v","e","'",")">>

RECURSIVE PipeChains(_)
PipeChains(k) ==
  IF k = 0 THEN Atoms
  ELSE PipeChains(k - 1)
         \cup { c \o <<" ","|"," ">> \o f : c \in PipeChains(k - 1), f \in FilterCalls }

Expressions ==
  PipeChains(MaxFilters)
    \cup { c \o <<" ","/","/"," ">> \o d : c \in PipeChains(MaxFilters), d \in DefaultAtoms }
    \cup { <<"{">> \o c \o <<"}">> : c \in Atoms }
    \cup { <<>>, <<" "," ">>, <<"/","/">>, <<"|">>, <<"a","[">>, <<"a","]","b">>, <<"'","o","p","e","n">>, <<"x"," ","/","/"," ","'","a","/","/","b","'">> }
    \cup { <<"f","a","l","s","e"," ","/","/"," ","'","A","n","o","n","'">>, <<"0"," ","/","/"," ","'","A","n","o","n","'">>, <<"f","o","r","m",".","x"," ","/","/"," ","f","a","l","s","e"," ","/","/"," ","'","A","n","o","n","'">>,
           <<"x"," ","/","/"," ","n","u","l","l"," ","/","/"," ","'","'"," ","/","/"," ","'","A","'">>, <<"n","o","t","e",".","n","o",".","x"," ","/","/"," ","n","u","l","l"," ","/","/"," ","'","'">>,
           <<"n","o","t","e",".","c","o","n","t","e","n","t"," ","/","/"," ","n","o","t","e",".","c","r","e","a","t","e","d","_","a","t"," ","/","/"," ","'","A","n","o","n","'">> }
    \cup { <<"n","o","t","e",".","c","o","n","t","e","n","t"," ","|"," ","t","r","u","n","c","a","t","e","(","1","0",")">>, <<"n","o","t","e",".","c","o","n","t","e","n","t"," ","|"," ","t","r","u","n","c","a","t","e","(","2",")">>,
           <<"n","o","t","e",".","c","o","n","t","e","n","t"," ","|"," ","t","r","u","n","c","a","t","e","(","1","1",")">>, <<"'","o","k",".",".",".","'"," ","|"," ","t","r","u","n","c","a","t","e","(","1","0",")">> }
    \cup { RelativeExpr(d) : d \in RelativeDiffs }

NoteObj ==
  Obj([k \in {<<"c","o","n","t","e","n","t">>, <<"j","s","o","n">>, <<"b","a","d">>, <<"c","r","e","a","t","e","d","_","a","t">>, <<"a","u","t","h","o","r">>} |->
        CASE k = <<"c","o","n","t","e","n","t">> -> Str(<<"H","e","l","l","o"," ","W","o","r","l","d">>)
          [] k = <<"j","s","o","n">> -> Str(<<"{","\"","n","a","m","e","\"",":","\"","B","o","b","\"","}">>)
          [] k = <<"b","a","d">> -> Str(<<"{","o","o","p","s">>)
          [] k = <<"c","r","e","a","t","e","d","_","a","t">> -> Num(1000)
          [] OTHER -> Null])

EventObj(id, content) ==
  Obj([k \in {<<"i","d">>, <<"c","o","n","t","e","n","t">>} |-> IF k = <<"i","d">> THEN Str(id) ELSE Str(content)])

EvalScopes ==
  { Obj([k \in {<<"n","o","t","e">>, <<"q","u","e","r","i","e","s">>, <<"f","o","r","m">>} |->
          CASE k = <<"n","o","t","e">> -> NoteObj
            [] k = <<"q","u","e","r","i","e","s">> -> Obj([q \in {<<"e","v","e","n","t","s">>} |-> Arr(<<EventObj(<<"e","1">>, <<"h","i">>)>>)])
            [] OTHER -> Obj([f \in {<<"x">>} |-> Str(<<>>)])]),
    Obj([k \in {<<"n","o","t","e">>, <<"q","u","e","r","i","e","s">>} |->
          IF k = <<"n","o","t","e">> THEN Null ELSE Obj([q \in {<<"e","v","e","n","t","s">>} |-> Undef])]),
    EmptyObj }

EvalInit ==
  /\ expr \in Expressions
  /\ escope \in EvalScopes
  /\ result = Pending
  /\ clock = ClockStart

\* evaluate(expr, escope) is called and returns.
Evaluate ==
  /\ result = Pending
  /\ result' = evaluate(expr, escope)
  /\ UNCHANGED <<expr, escope, clock>>
  /\ UNCHANGED <<pageVars, renderVars, importVars, actionVars, sessionVars, queryVars>>

vars == <<evalVars, pageVars, renderVars, importVars, actionVars, sessionVars,
          queryVars>>

\* ------------------------------------------------------------------------
\* The page context: frontmatter, queries, form defaults
\* ------------------------------------------------------------------------
MaxInflight == 2
NumRelays == 2

\* An object from a list of <<key, value>> pairs.
ObjOf(pairs) ==
  LET list == pairs
  IN  Obj([k \in {list[i][1] : i \in 1..Len(list)} |->
            list[CHOOSE i \in 1..Len(list) : list[i][1] = k][2]])

\* The parsed frontmatter of the document: a profile query, four form fields
\* (a literal default, a queries.* default, a state.* default that is a
\* number and a declared default that is itself a number) and two actions.
Frontmatter ==
  ObjOf(<< <<<<"t","i","t","l","e">>, Str(<<"G","u","e","s","t","b","o","o","k">>)>>,
           <<<<"p","r","o","f","i","l","e">>, Str(<<"n","p","u","b","1">>)>>,
           <<<<"l","i","m","i","t">>, Num(20)>>,
           <<<<"f","o","r","m">>, ObjOf(<< <<<<"c","o","n","t","e","n","t">>, Str(<<"d","r","a","f","t">>)>>,
                               <<<<"n","a","m","e">>, Str(<<"q","u","e","r","i","e","s",".","p","r","o","f","i","l","e",".","n","a","m","e">>)>>,
                               <<<<"l","i","m","i","t">>, Str(<<"s","t","a","t","e",".","l","i","m","i","t">>)>>,
                               <<<<"c","o","u","n","t">>, Num(5)>> >>)>>,
           <<<<"a","c","t","i","o","n","s">>,
             ObjOf(<< <<<<"p","o","s","t">>, ObjOf(<< <<<<"k","i","n","d">>, Num(1)>>,
                                          <<<<"c","o","n","t","e","n","t">>, Str(<<"f","o","r","m",".","c","o","n","t","e","n","t">>)>>,
                                          <<<<"c","l","e","a","r">>, Bool(TRUE)>> >>)>>,
                      <<<<"s","a","v","e">>, ObjOf(<< <<<<"k","i","n","d">>, Str(<<"3","0","0","7","8">>)>>,
                                          <<<<"c","o","n","t","e","n","t">>, Str(<<"s","a","v","e","d">>)>>,
                                          <<<<"t","a","g","s">>, Arr(<< Arr(<< Str(<<"d">>), Str(<<"u","s","e","r">>) >>) >>)>> >>)>> >>)>> >>)

Fields == DOMAIN GetProp(Frontmatter, <<"f","o","r","m">>).o
ActionNames == DOMAIN GetProp(Frontmatter, <<"a","c","t","i","o","n","s">>).o
\* What the user types: the literal field is emptied, the queries.* field
\* is emptied or filled in, the other fields are left alone.
UserValues(name) ==
  IF name = <<"c","o","n","t","e","n","t">> THEN { <<>> }
  ELSE IF name = <<"n","a","m","e">> THEN { <<>>, <<"h","i">> }
  ELSE {}
UserPubkey == Str(<<"p","k","1">>)

\* What the profile query delivers.
QueryResults ==
  { ObjOf(<< <<<<"p","u","b","k","e","y">>, Str(<<"p","k","9">>)>>, <<<<"n","a","m","e">>, Str(<<"B","o","b">>)>> >>) }

\* useMemo query: the first of profile, event, address, filter the frontmatter has.
QueryType(frontmatter) ==
  IF IsNullish(frontmatter) THEN "none"
  ELSE IF Truthy(GetProp(frontmatter, <<"p","r","o","f","i","l","e">>)) THEN "profile"
  ELSE IF Truthy(GetProp(frontmatter, <<"e","v","e","n","t">>)) THEN "event"
  ELSE IF Truthy(GetProp(frontmatter, <<"a","d","d","r","e","s","s">>)) THEN "address"
  ELSE IF Truthy(GetProp(frontmatter, <<"f","i","l","t","e","r">>)) THEN "timeline"
  ELSE "none"

\* A queries object that fills every entry.
QueriesOfEveryEntry(type, qr) ==
  ObjOf(<< <<<<"p","r","o","f","i","l","e">>, qr>>,
           <<<<"e","v","e","n","t">>, IF IsArr(qr) THEN GetIndex(qr, 0) ELSE qr>>,
           <<<<"e","v","e","n","t","s">>, qr>>,
           <<<<"a","d","d","r","e","s","s">>, qr>> >>)

\* useMemo queries
QueriesOf(type, qr) ==
  ObjOf(<< <<<<"p","r","o","f","i","l","e">>, IF type = "profile" THEN qr ELSE Undef>>,
           <<<<"e","v","e","n","t">>, IF type = "event"
                         THEN (IF IsArr(qr) THEN GetIndex(qr, 0) ELSE qr) ELSE Undef>>,
           <<<<"e","v","e","n","t","s">>, IF type = "timeline" THEN qr ELSE Undef>>,
           <<<<"a","d","d","r","e","s","s">>, IF type = "address" THEN qr ELSE Undef>> >>)

Queries(frontmatter, qr) == QueriesOf(QueryType(frontmatter), qr)

\* The form state as the object the evaluator reads.
FormObj(f) == Obj(f)

IsReference(value) == StartsWith(value, <<"q","u","e","r","i","e","s",".">>) \/ StartsWith(value, <<"s","t","a","t","e",".">>)

\* defaults of the first effect: the declared defaults that are strings and
\* not references.
LiteralDefaults(frontmatter) ==
  LET decl == GetProp(frontmatter, <<"f","o","r","m">>).o
      keys == {k \in DOMAIN decl : IsStr(decl[k]) /\ ~IsReference(decl[k].s)}
  IN  [k \in keys |-> decl[k]]

\* The updater of the first effect: a default goes to a key that is undefined.
SeedLiteral(prev, defaults) ==
  [k \in DOMAIN prev \cup DOMAIN defaults |->
    IF k \in DOMAIN prev THEN prev[k] ELSE defaults[k]]

\* The scope the second effect evaluates against.
DefaultsScope(frontmatter, queries, f) ==
  ObjOf(<< <<<<"q","u","e","r","i","e","s">>, queries>>, <<<<"s","t","a","t","e">>, frontmatter>>, <<<<"f","o","r","m">>, FormObj(f)>>,
           <<<<"u","p","d","a","t","e","F","o","r","m">>, Fn>>, <<<<"e","x","e","c","u","t","e","A","c","t","i","o","n">>, Fn>>, <<<<"i","s","P","u","b","l","i","s","h","i","n","g">>, Bool(FALSE)>> >>)

\* resolved of the second effect: the reference defaults that evaluate to a
\* value, as strings; nothing while no query has a result.
\* The assignments without the String conversion.
ResolvedFromUncoerced(vals) ==
  [k \in {x \in DOMAIN vals : ~IsNullish(vals[x])} |-> vals[k]]

\* The assignments resolved[k] = String(val) for the values that are present.
ResolvedFrom(vals) ==
  [k \in {x \in DOMAIN vals : ~IsNullish(vals[x])} |-> Str(JSString(vals[k]))]

\* The declared defaults that are references, each evaluated.
ReferenceValues(decl, evalScope) ==
  [k \in {x \in DOMAIN decl : IsStr(decl[x]) /\ IsReference(decl[x].s)} |->
    evaluate(decl[k].s, evalScope)]

ResolvedDefaults(frontmatter, queries, f) ==
  IF \E q \in DOMAIN queries.o : queries.o[q] # Undef
    THEN ResolvedFrom(ReferenceValues(GetProp(frontmatter, <<"f","o","r","m">>).o,
                                      DefaultsScope(frontmatter, queries, f)))
    ELSE <<>>

\* An updater that writes every resolved default.
RefWritesAlways(prev, k) == TRUE

\* Whether the updater of the second effect writes key k of prev.
RefWrites(prev, k) == k \notin DOMAIN prev \/ ~Truthy(prev[k])

\* The updater of the second effect.
SeedResolved(prev, resolved) ==
  [k \in DOMAIN prev \cup DOMAIN resolved |->
    IF k \in DOMAIN resolved /\ RefWrites(prev, k) THEN resolved[k] ELSE prev[k]]

\* ------------------------------------------------------------------------
\* Building the event of an action
\* ------------------------------------------------------------------------
\* Key order of JSON.stringify: the model's objects are unordered maps, so
\* their keys are written in the order of this alphabet.
Alphabet == <<"0","1","2","3","4","5","6","7","8","9","A","B","C","D","E","F","G","H","I","J","K","L","M","N","O","P","Q","R","S","T","U","V","W","X","Y","Z","_","a","b","c","d","e","f","g","h","i","j","k","l","m","n","o","p","q","r","s","t","u","v","w","x","y","z">>
CharRank(c) ==
  IF \E i \in 1..Len(Alphabet) : Alphabet[i] = c
    THEN CHOOSE i \in 1..Len(Alphabet) : Alphabet[i] = c ELSE 0

RECURSIVE KeyLess(_, _)
KeyLess(a, b) ==
  IF a = <<>> THEN b # <<>>
  ELSE IF b = <<>> THEN FALSE
  ELSE IF Head(a) = Head(b) THEN KeyLess(Tail(a), Tail(b))
  ELSE CharRank(Head(a)) < CharRank(Head(b))

RECURSIVE KeySeq(_)
KeySeq(keys) ==
  IF keys = {} THEN <<>>
  ELSE LET first == CHOOSE k \in keys : \A o \in keys \ {k} : KeyLess(k, o)
       IN  <<first>> \o KeySeq(keys \ {first})

RECURSIVE JoinWith(_, _)
JoinWith(parts, sep) ==
  IF parts = <<>> THEN <<>>
  ELSE IF Len(parts) = 1 THEN parts[1]
  ELSE parts[1] \o sep \o JoinWith(Tail(parts), sep)

\* JSON.stringify(v) for a value that is serialized (not undefined, not a
\* function): object members whose value is undefined are left out.
RECURSIVE EscapeJSON(_)
EscapeJSON(str) ==
  IF str = <<>> THEN <<>>
  ELSE (IF Head(str) \in {"\"", "\\"} THEN <<"\\", Head(str)>> ELSE <<Head(str)>>)
         \o EscapeJSON(Tail(str))

RECURSIVE JSONStringify(_)
JSONStringify(v) ==
  CASE v.t = "string" -> <<"\"">> \o EscapeJSON(v.s) \o <<"\"">>
    [] v.t = "number" -> IntToStr(v.n)
    [] v.t = "boolean" -> IF v.b THEN <<"t","r","u","e">> ELSE <<"f","a","l","s","e">>
    [] v.t = "object" ->
         LET ks == KeySeq({k \in DOMAIN v.o : v.o[k].t \notin {"undefined", "function"}})
         IN  <<"{">> \o JoinWith([i \in 1..Len(ks) |->
                       <<"\"">> \o ks[i] \o <<"\"",":">> \o JSONStringify(v.o[ks[i]])], <<",">>) \o <<"}">>
    [] v.t = "array" ->
         <<"[">> \o JoinWith([i \in 1..Len(v.a) |->
                   IF v.a[i].t \in {"undefined", "function"} THEN <<"n","u","l","l">>
                   ELSE JSONStringify(v.a[i])], <<",">>) \o <<"]">>
    [] OTHER -> <<"n","u","l","l">>

\* resolveValue of usePageContext.ts (resolveActionValue of Preview.tsx):
\* the leaves of an action's content and tags.
\* A resolver that does not go into mappings.
resolveShallow(value, evalScope) ==
  IF ~IsStr(value) THEN value
  ELSE IF value.s = <<"n","o","w">> THEN Num(clock)
  ELSE IF value.s = <<"u","s","e","r">> \/ value.s = <<"u","s","e","r",".","p","u","b","k","e","y">> THEN GetProp(evalScope, <<"u","s","e","r">>)
  ELSE IF StartsWith(value.s, <<"f","o","r","m",".">>) \/ StartsWith(value.s, <<"s","t","a","t","e",".">>)
            \/ StartsWith(value.s, <<"q","u","e","r","i","e","s",".">>)
    THEN evaluate(value.s, evalScope)
  ELSE value

RECURSIVE resolveActionValue(_, _)
resolveActionValue(value, evalScope) ==
  IF value.t = "object"
    THEN Obj([k \in DOMAIN value.o |-> resolveActionValue(value.o[k], evalScope)])
  ELSE IF value.t = "array"
    THEN Obj([k \in {IntToStr(i - 1) : i \in 1..Len(value.a)} |->
               resolveActionValue(value.a[DigitsVal(k, 0) + 1], evalScope)])
  ELSE IF ~IsStr(value) THEN value
  ELSE IF value.s = <<"n","o","w">> THEN Num(clock)
  ELSE IF value.s = <<"u","s","e","r">> \/ value.s = <<"u","s","e","r",".","p","u","b","k","e","y">> THEN GetProp(evalScope, <<"u","s","e","r">>)
  ELSE IF StartsWith(value.s, <<"f","o","r","m",".">>) \/ StartsWith(value.s, <<"s","t","a","t","e",".">>)
            \/ StartsWith(value.s, <<"q","u","e","r","i","e","s",".">>)
    THEN evaluate(value.s, evalScope)
  ELSE value

\* JSON.parse(text) inside try { } catch {}: the empty object when it raises.
ParseOrEmpty(text) == Caught(JSONParse(text), EmptyObj)

\* The members { ...v } spreads: those of an object, the indices of an
\* array or of a string, none of anything else.
Members(v) ==
  CASE v.t = "object" -> v.o
    [] v.t = "array" -> [k \in {IntToStr(i - 1) : i \in 1..Len(v.a)} |-> v.a[DigitsVal(k, 0) + 1]]
    [] v.t = "string" ->
         [k \in {IntToStr(i - 1) : i \in 1..Len(v.s)} |-> Str(<< v.s[DigitsVal(k, 0) + 1] >>)]
    [] OTHER -> <<>>

\* A merge in which the base wins a key collision.
MergeBaseWins(baseObj, contentObj) ==
  Obj([k \in {x \in DOMAIN Members(baseObj) \cup DOMAIN Members(contentObj) :
                (IF x \in DOMAIN Members(baseObj) THEN Members(baseObj)[x]
                 ELSE Members(contentObj)[x]) # Str(<<>>)} |->
        IF k \in DOMAIN Members(baseObj) THEN Members(baseObj)[k]
        ELSE Members(contentObj)[k]])

\* merged: { ...baseObj, ...contentObj } without the keys whose value is "".
MergeOver(baseObj, contentObj) ==
  LET b == Members(baseObj)
      c == Members(contentObj)
      all == [k \in DOMAIN b \cup DOMAIN c |-> IF k \in DOMAIN c THEN c[k] ELSE b[k]]
  IN  Obj([k \in {x \in DOMAIN all : all[x] # Str(<<>>)} |-> all[k]])

\* The content of the event: base merging, or the object serialized.
BaseObject(baseResult) ==
  IF IsStr(baseResult) THEN ParseOrEmpty(baseResult.s)
  ELSE IF baseResult.t \in {"object", "array"} THEN baseResult
  ELSE EmptyObj

ContentObject(content) ==
  IF IsStr(content) /\ StartsWith(Trim(content.s), <<"{">>) THEN ParseOrEmpty(content.s)
  ELSE IF content.t \in {"object", "array"} THEN content
  ELSE EmptyObj

\* The content from the resolved value of actionDef.content on.
ContentFrom(content, base, evalScope) ==
  IF Truthy(base)
    THEN Str(JSONStringify(MergeOver(BaseObject(evaluate(base.s, evalScope)),
                                     ContentObject(content))))
  ELSE IF content.t \in {"object", "array", "null"} THEN Str(JSONStringify(content))
  ELSE content

ResolveContent(actionDef, evalScope) ==
  ContentFrom(resolveActionValue(GetProp(actionDef, <<"c","o","n","t","e","n","t">>), evalScope),
              GetProp(actionDef, <<"b","a","s","e">>), evalScope)

\* tags: every entry of every declared row resolved and turned into a string.
ResolveTags(actionDef, evalScope) ==
  LET tags == GetProp(actionDef, <<"t","a","g","s">>)
  IN  IF ~Truthy(tags) THEN <<>>
      ELSE [i \in 1..Len(tags.a) |->
             [j \in 1..Len(tags.a[i].a) |->
               JSString(resolveActionValue(tags.a[i].a[j], evalScope))]]

\* The scope executeAction resolves values against: the queries and the form
\* of the render that created the callback.
ActionScope(frontmatter, queries, f, pubkey) ==
  ObjOf(<< <<<<"q","u","e","r","i","e","s">>, queries>>, <<<<"s","t","a","t","e">>, frontmatter>>, <<<<"f","o","r","m">>, FormObj(f)>>,
           <<<<"u","s","e","r">>, pubkey>>, <<<<"u","p","d","a","t","e","F","o","r","m">>, Fn>>, <<<<"e","x","e","c","u","t","e","A","c","t","i","o","n">>, Fn>>,
           <<<<"i","s","P","u","b","l","i","s","h","i","n","g">>, Bool(TRUE)>> >>)

\* An event template whose kind is the declared value as it is.
EventTemplateKindAsDeclared(actionDef, evalScope) ==
  [ kind |-> GetProp(actionDef, <<"k","i","n","d">>),
    content |-> JSString(ResolveContent(actionDef, evalScope)),
    tags |-> ResolveTags(actionDef, evalScope),
    created_at |-> clock ]

\* eventTemplate
EventTemplate(actionDef, evalScope) ==
  LET k == GetProp(actionDef, <<"k","i","n","d">>)
  IN  [ kind |-> IF IsNum(k) THEN k ELSE ParseInt(k),
        content |-> JSString(ResolveContent(actionDef, evalScope)),
        tags |-> ResolveTags(actionDef, evalScope),
        created_at |-> clock ]

\* ------------------------------------------------------------------------
\* One document instance: state, renders, effects, action execution
\* ------------------------------------------------------------------------
NoDone == [action |-> <<>>, outcome |-> "none", accepted |-> 0, message |-> "none"]

\* What a render computes from the current state (the useMemo scope).
Snapshot(f, publishing, qr) ==
  [form |-> f, isPublishing |-> publishing, queries |-> Queries(Frontmatter, qr)]

PageInit ==
  /\ form = SeedLiteral(<<>>, LiteralDefaults(Frontmatter))
  /\ isPublishing = FALSE
  /\ queryResult = Undef
  /\ isReadonly \in BOOLEAN
  /\ pageScope = Snapshot(form, FALSE, Undef)
  /\ inflight = EmptyBag
  /\ lastDone = NoDone
  /\ entered = <<>>
  /\ offered = {}

\* updateForm(name, value), as Input and Textarea call it on a change, and
\* the render React commits after the event.
UpdateForm(name, value) ==
  /\ form' = [k \in DOMAIN form \cup {name} |->
                IF k = name THEN Str(value) ELSE form[k]]
  /\ entered' = [k \in DOMAIN entered \cup {name} |->
                   IF k = name THEN value ELSE entered[k]]
  /\ offered' = {}
  /\ lastDone' = NoDone
  /\ pageScope' = Snapshot(form', isPublishing, queryResult)
  /\ UNCHANGED <<isPublishing, queryResult, isReadonly, inflight>>
  /\ UNCHANGED <<evalVars, renderVars, importVars, actionVars, sessionVars, queryVars>>

\* The observable of useNostrQuery delivers a result: queries changes, the
\* effect on [queries, frontmatter?.form] runs and the result is rendered.
QueryArrives(qr) ==
  /\ qr # queryResult
  /\ queryResult' = qr
  /\ \E resolved \in {ResolvedDefaults(Frontmatter, Queries(Frontmatter, qr), form)} :
       /\ form' = SeedResolved(form, resolved)
       /\ offered' = DOMAIN entered \cap DOMAIN resolved
  /\ pageScope' = Snapshot(form', isPublishing, qr)
  /\ lastDone' = NoDone
  /\ UNCHANGED <<isPublishing, isReadonly, inflight, entered>>
  /\ UNCHANGED <<evalVars, renderVars, importVars, actionVars, sessionVars, queryVars>>

\* The page is delivered again and parsed into a new frontmatter object with
\* the same declarations: both effects on frontmatter?.form run again.
FormDeclChanged ==
  /\ \E defaults \in {LiteralDefaults(Frontmatter)},
        resolved \in {ResolvedDefaults(Frontmatter,
                        Queries(Frontmatter, queryResult), form)} :
       /\ form' = SeedResolved(SeedLiteral(form, defaults), resolved)
       /\ offered' = DOMAIN entered \cap (DOMAIN defaults \cup DOMAIN resolved)
  /\ pageScope' = Snapshot(form', isPublishing, queryResult)
  /\ lastDone' = NoDone
  /\ UNCHANGED <<isPublishing, queryResult, isReadonly, inflight, entered>>
  /\ UNCHANGED <<evalVars, renderVars, importVars, actionVars, sessionVars, queryVars>>

\* React commits the render that setIsPublishing(true) asked for.
Render ==
  /\ pageScope # Snapshot(form, isPublishing, queryResult)
  /\ pageScope' = Snapshot(form, isPublishing, queryResult)
  /\ lastDone' = NoDone
  /\ offered' = {}
  /\ UNCHANGED <<form, isPublishing, queryResult, isReadonly, inflight, entered>>
  /\ UNCHANGED <<evalVars, renderVars, importVars, actionVars, sessionVars, queryVars>>

\* executeAction without the early return of a read-only session.
ExecuteActionUnguarded(actionName) ==
  LET actionDef == GetProp(GetProp(Frontmatter, <<"a","c","t","i","o","n","s">>), actionName)
      evalScope == ActionScope(Frontmatter, pageScope.queries, pageScope.form, UserPubkey)
  IN  IF ~Truthy(actionDef)
        THEN /\ lastDone' = [action |-> actionName, outcome |-> "unknownAction",
                             accepted |-> 0,
                             message |-> "warn: Unknown action"]
             /\ UNCHANGED <<isPublishing, inflight>>
      ELSE /\ BagCardinality(inflight) < MaxInflight
           /\ isPublishing' = TRUE
           /\ inflight' = inflight (+) SetToBag({
                [action |-> actionName, stage |-> "signing",
                 event |-> EventTemplate(actionDef, evalScope)]})
           /\ lastDone' = NoDone

\* executeAction(actionName) up to its first await: the two early returns,
\* then the flag, the event and the call of the signer.  It reads the form
\* and the queries of the render that created the callback.
ExecuteAction(actionName) ==
  LET actionDef == GetProp(GetProp(Frontmatter, <<"a","c","t","i","o","n","s">>), actionName)
      evalScope == ActionScope(Frontmatter, pageScope.queries, pageScope.form, UserPubkey)
  IN  IF ~Truthy(actionDef)
        THEN /\ lastDone' = [action |-> actionName, outcome |-> "unknownAction",
                             accepted |-> 0,
                             message |-> "warn: Unknown action"]
             /\ UNCHANGED <<isPublishing, inflight>>
      ELSE IF isReadonly
        THEN /\ lastDone' = [action |-> actionName, outcome |-> "readonly",
                             accepted |-> 0,
                             message |-> "alert: Login with extension to publish"]
             /\ UNCHANGED <<isPublishing, inflight>>
      ELSE /\ BagCardinality(inflight) < MaxInflight
           /\ isPublishing' = TRUE
           /\ inflight' = inflight (+) SetToBag({
                [action |-> actionName, stage |-> "signing",
                 event |-> EventTemplate(actionDef, evalScope)]})
           /\ lastDone' = NoDone

\* A click on a rendered Button: disabled while the rendered scope says
\* isPublishing.
Click(actionName) ==
  /\ ~pageScope.isPublishing
  /\ ExecuteAction(actionName)
  /\ offered' = {}
  /\ UNCHANGED <<form, queryResult, isReadonly, pageScope, entered>>
  /\ UNCHANGED <<evalVars, renderVars, importVars, actionVars, sessionVars, queryVars>>

\* A publish that never counts as a failure.
PublishOutcomeAlways(published) == "success"

\* published.length === 0 throws.
PublishOutcome(published) == IF published = 0 THEN "zeroAccept" ELSE "success"

\* setForm({}) in a finally block: after any outcome.
FinishFormAnyOutcome(actionDef, outcome, f) ==
  IF Truthy(GetProp(actionDef, <<"c","l","e","a","r">>)) THEN <<>> ELSE f

\* setForm({}) without the test of actionDef.clear.
FinishFormAnySuccess(actionDef, outcome, f) ==
  IF outcome = "success" THEN <<>> ELSE f

\* What the end of an execution leaves in the form: setForm({}) after an
\* accepted publish of an action that declares clear, nothing otherwise.
FinishForm(actionDef, outcome, f) ==
  IF outcome = "success" /\ Truthy(GetProp(actionDef, <<"c","l","e","a","r">>)) THEN <<>> ELSE f

\* setIsPublishing(false) at the end of the try block instead of finally.
FlagResetInTry(outcome) == outcome # "success"

\* The flag after the finally block.
FinallyFlag(outcome) == FALSE

\* The end of execution e: the catch block for a failure, then finally, and
\* the render of what they set.
Finish(e, outcome, accepted, message) ==
  LET actionDef == GetProp(GetProp(Frontmatter, <<"a","c","t","i","o","n","s">>), e.action)
  IN  /\ form' = FinishForm(actionDef, outcome, form)
      /\ entered' = IF form' = form THEN entered ELSE <<>>
      /\ offered' = {}
      /\ isPublishing' = FinallyFlag(outcome)
      /\ inflight' = inflight (-) SetToBag({e})
      /\ lastDone' = [action |-> e.action, outcome |-> outcome, accepted |-> accepted,
                      message |-> IF outcome = "success" THEN "none" ELSE message]
      /\ pageScope' = Snapshot(form', isPublishing', queryResult)
      /\ UNCHANGED <<queryResult, isReadonly>>
      /\ UNCHANGED <<evalVars, renderVars, importVars, actionVars, sessionVars, queryVars>>

\* What the signer resolves with for a template: the template's fields with
\* the signer's pubkey, the id and the signature.
SignEvent(t) ==
  [ kind |-> t.kind, content |-> t.content, tags |-> t.tags,
    created_at |-> t.created_at, pubkey |-> UserPubkey, id |-> "id", sig |-> "sig" ]

\* A continuation that publishes the template it gave the signer.
SignerReturnsPublishesTemplate(e) ==
  /\ e.stage = "signing"
  /\ inflight' = (inflight (-) SetToBag({e})) (+) SetToBag({
                   [action |-> e.action, stage |-> "publishing", event |-> e.event]})
  /\ lastDone' = NoDone
  /\ offered' = {}
  /\ UNCHANGED <<form, isPublishing, queryResult, isReadonly, pageScope, entered>>
  /\ UNCHANGED <<evalVars, renderVars, importVars, actionVars, sessionVars, queryVars>>

\* nostr.signer.signEvent resolves: pool.publish is called with its result.
SignerReturns(e) ==
  /\ e.stage = "signing"
  /\ inflight' = (inflight (-) SetToBag({e})) (+) SetToBag({
                   [action |-> e.action, stage |-> "publishing",
                    event |-> SignEvent(e.event)]})
  /\ lastDone' = NoDone
  /\ offered' = {}
  /\ UNCHANGED <<form, isPublishing, queryResult, isReadonly, pageScope, entered>>
  /\ UNCHANGED <<evalVars, renderVars, importVars, actionVars, sessionVars, queryVars>>

\* nostr.signer.signEvent rejects.
SignerErrors(e) ==
  /\ e.stage = "signing"
  /\ Finish(e, "signerError", 0, "alert: signer error")

\* nostr.pool.publish resolves with the destinations that took the event.
PublishReturns(e, published) ==
  /\ e.stage = "publishing"
  /\ Finish(e, PublishOutcome(published), published,
            "alert: Failed to publish to any relay")

\* nostr.pool.publish rejects.
PublishErrors(e) ==
  /\ e.stage = "publishing"
  /\ Finish(e, "publishError", 0, "alert: publish error")

PageNext ==
  \/ \E name \in Fields : \E value \in UserValues(name) : UpdateForm(name, value)
  \/ \E qr \in QueryResults : QueryArrives(qr)
  \/ FormDeclChanged
  \/ Render
  \/ \E a \in ActionNames \cup {<<"n","o","p","e">>} : Click(a)
  \/ \E e \in BagToSet(inflight) : SignerReturns(e)
  \/ \E e \in BagToSet(inflight) : SignerErrors(e)
  \/ \E e \in BagToSet(inflight), n \in 0..NumRelays : PublishReturns(e, n)
  \/ \E e \in BagToSet(inflight) : PublishErrors(e)

\* ------------------------------------------------------------------------
\* The node renderer: a document AST and a scope to a tree of output nodes
\* ------------------------------------------------------------------------
\* An output node: a host element with attributes and children, a piece of
\* text, or a component instance (an EachItem with the props it was last
\* rendered with, an imported component's NodeRenderer).
OutNode(el, attrs, text, key, item, kids) ==
  [el |-> el, attrs |-> attrs, text |-> text, key |-> key, item |-> item, kids |-> kids]

Element(el, kids) == OutNode(el, <<>>, <<>>, <<>>, Undef, kids)
TextNode(el, text) == OutNode(el, <<>>, text, <<>>, Undef, <<>>)
NoOut == Element(<<"n","o","n","e">>, <<>>)

\* The EachItem instance mounted at a position of the committed tree.
RECURSIVE FindItem(_, _)
FindItem(outs, pos) ==
  IF outs = <<>> THEN NoOut
  ELSE IF Head(outs).el = <<"E","a","c","h","I","t","e","m">> /\ Head(outs).key = pos THEN Head(outs)
  ELSE LET below == FindItem(Head(outs).kids, pos)
       IN  IF below # NoOut THEN below ELSE FindItem(Tail(outs), pos)

\* { ...scope, [k1]: v1, [k2]: v2 } for a list of <<key, value>> pairs, the
\* later pairs winning.
Spread(scope, pairs) ==
  LET base == Members(scope)
      last(k) == CHOOSE i \in 1..Len(pairs) :
                   pairs[i][1] = k /\ \A j \in (i + 1)..Len(pairs) : pairs[j][1] # k
  IN  Obj([k \in DOMAIN base \cup {pairs[i][1] : i \in 1..Len(pairs)} |->
            IF \E i \in 1..Len(pairs) : pairs[i][1] = k THEN pairs[last(k)][2]
            ELSE base[k]])

\* The value parseAttributes gives one attribute.
AttrOfType(value, attrType, scope) ==
  IF ~Truthy(value) THEN Bool(TRUE)
  ELSE IF attrType = Str(<<"l","i","t","e","r","a","l">>) THEN value
  ELSE IF attrType = Str(<<"e","x","p","r","e","s","s","i","o","n">>) THEN Caught(evaluate(value.s, scope), Undef)
  ELSE IF IsStr(value) /\ (IndexOf(value.s, ".") # -1 \/ IndexOf(value.s, "[") # -1)
    THEN Caught(evaluate(value.s, scope), value)
  ELSE value

AttrValue(attr, scope) == AttrOfType(GetProp(attr, <<"v","a","l","u","e">>), GetProp(attr, <<"t","y","p","e">>), scope)

\* parseAttributes(attributes, scope): attribute name -> value, a later
\* attribute of the same name replacing an earlier one.
parseAttributes(attributes, scope) ==
  LET list == IF IsArr(attributes) THEN attributes.a ELSE <<>>
      named == {i \in 1..Len(list) : Truthy(GetProp(list[i], <<"n","a","m","e">>))}
      names == {GetProp(list[i], <<"n","a","m","e">>).s : i \in named}
      last(n) == CHOOSE i \in named :
                   /\ GetProp(list[i], <<"n","a","m","e">>).s = n
                   /\ \A j \in named : j > i => GetProp(list[j], <<"n","a","m","e">>).s # n
  IN  [n \in names |-> AttrValue(list[last(n)], scope)]

Attr(attrs, name) == IF name \in DOMAIN attrs THEN attrs[name] ELSE Undef

\* Object.keys(builtinComponents)
BuiltinNames ==
  { <<"H","S","t","a","c","k">>, <<"V","S","t","a","c","k">>, <<"Z","S","t","a","c","k">>, <<"T","e","x","t">>, <<"I","m","g">>, <<"N","o","t","e">>, <<"P","r","o","f","i","l","e">>, <<"I","n","p","u","t">>,
    <<"T","e","x","t","a","r","e","a">>, <<"B","u","t","t","o","n">> }

ToLowerCase(str) == [i \in 1..Len(str) |-> LowerChar(str[i])]

\* Object.keys(builtinComponents).find(k => k.toLowerCase() === name.toLowerCase())
BuiltinKey(componentName) ==
  IF \E k \in BuiltinNames : ToLowerCase(k) = ToLowerCase(componentName)
    THEN CHOOSE k \in BuiltinNames : ToLowerCase(k) = ToLowerCase(componentName)
    ELSE <<>>

\* scope.components?.[componentName]
ImportedAst(scope, componentName) ==
  LET components == GetProp(scope, <<"c","o","m","p","o","n","e","n","t","s">>)
  IN  IF IsNullish(components) THEN Undef ELSE GetProp(components, componentName)

\* item?.id || item?.pubkey || itemIndex
ItemKey(item, itemIndex) ==
  LET id == IF IsNullish(item) THEN Undef ELSE GetProp(item, <<"i","d">>)
      pubkey == IF IsNullish(item) THEN Undef ELSE GetProp(item, <<"p","u","b","k","e","y">>)
  IN  IF Truthy(id) THEN id ELSE IF Truthy(pubkey) THEN pubkey ELSE Num(itemIndex)

\* The comparator of memo(EachItem): true keeps the committed subtree.
ItemPropsEqual(prevItemScope_item, itemScope) ==
  prevItemScope_item = GetProp(itemScope, <<"i","t","e","m">>)

\* Node types that render one host element around their children.
Containers ==
  [type \in { <<"p","a","r","a","g","r","a","p","h">>, <<"l","i","s","t","_","o","r","d","e","r","e","d">>, <<"l","i","s","t","_","u","n","o","r","d","e","r","e","d">>, <<"l","i","s","t","_","i","t","e","m">>, <<"l","i","n","k">>,
              <<"s","t","r","o","n","g">>, <<"e","m","p","h","a","s","i","s">>, <<"b","l","o","c","k","q","u","o","t","e">> } |->
     CASE type = <<"p","a","r","a","g","r","a","p","h">> -> <<"p">>
       [] type = <<"l","i","s","t","_","o","r","d","e","r","e","d">> -> <<"o","l">>
       [] type = <<"l","i","s","t","_","u","n","o","r","d","e","r","e","d">> -> <<"u","l">>
       [] type = <<"l","i","s","t","_","i","t","e","m">> -> <<"l","i">>
       [] type = <<"l","i","n","k">> -> <<"a">>
       [] type = <<"s","t","r","o","n","g">> -> <<"s","t","r","o","n","g">>
       [] type = <<"e","m","p","h","a","s","i","s">> -> <<"e","m">>
       [] OTHER -> <<"b","l","o","c","k","q","u","o","t","e">>]

\* String(result ?? "")
ExprText(value) == IF IsNullish(value) THEN <<>> ELSE JSString(value)

RECURSIVE NodeRenderer(_, _, _, _)
RECURSIVE renderChildren(_, _, _, _)
RECURSIVE renderJsxElement(_, _, _, _)
RECURSIVE renderJsxSelfClosing(_, _, _, _)
RECURSIVE EachItem(_, _, _, _)
RECURSIVE RenderItems(_, _, _, _, _, _)

\* children.map(child => <NodeRenderer node={child} scope={scope ?? {}} />):
\* the output of every child, in order.
renderChildren(children, key, scope, committed) ==
  LET list == IF IsArr(children) THEN children.a ELSE <<>>
      outs == [i \in 1..Len(list) |->
                NodeRenderer(list[i], Append(key, IntToStr(i - 1)), scope, committed)]
      flat[i \in 0..Len(list)] == IF i = 0 THEN <<>> ELSE flat[i - 1] \o outs[i]
  IN  flat[Len(list)]

\* case "heading"
Heading(level, node, key, scope, committed) ==
  IF IsNum(level) /\ level.n \in 1..6
    THEN << Element(<<"h">> \o IntToStr(level.n),
              renderChildren(GetProp(node, <<"c","h","i","l","d","r","e","n">>), key, scope, committed)) >>
    ELSE << TextNode(<<"d","i","v">>, <<"U","n","k","n","o","w","n"," ","h","e","a","d","i","n","g"," ","l","e","v","e","l",":"," ">> \o ExprText(level)) >>

\* The switch of NodeRenderer on node.type.
NodeOfType(node, type, key, scope, committed) ==
  IF type \in { <<"r","o","o","t">>, <<"m","d","x","_","j","s","x","_","f","r","a","g","m","e","n","t">> }
    THEN renderChildren(GetProp(node, <<"c","h","i","l","d","r","e","n">>), key, scope, committed)
  ELSE IF type = <<"h","e","a","d","i","n","g">> THEN Heading(GetProp(node, <<"l","e","v","e","l">>), node, key, scope, committed)
  ELSE IF type \in DOMAIN Containers
    THEN << Element(Containers[type],
              renderChildren(GetProp(node, <<"c","h","i","l","d","r","e","n">>), key, scope, committed)) >>
  ELSE IF type = <<"t","e","x","t">> THEN << TextNode(<<"s","p","a","n">>, ExprText(GetProp(node, <<"v","a","l","u","e">>))) >>
  ELSE IF type = <<"c","o","d","e","_","i","n","l","i","n","e">>
    THEN << TextNode(<<"c","o","d","e">>, ExprText(GetProp(node, <<"v","a","l","u","e">>))) >>
  ELSE IF type = <<"c","o","d","e","_","b","l","o","c","k">>
    THEN << Element(<<"p","r","e">>, << TextNode(<<"c","o","d","e">>, ExprText(GetProp(node, <<"v","a","l","u","e">>))) >>) >>
  ELSE IF type = <<"h","r">> THEN << Element(<<"h","r">>, <<>>) >>
  ELSE IF type = <<"i","m","a","g","e">> THEN << Element(<<"i","m","g">>, <<>>) >>
  ELSE IF type = <<"f","r","o","n","t","m","a","t","t","e","r">> THEN <<>>
  ELSE IF type \in { <<"m","d","x","_","t","e","x","t","_","e","x","p","r","e","s","s","i","o","n">>, <<"m","d","x","_","f","l","o","w","_","e","x","p","r","e","s","s","i","o","n">> }
    THEN << TextNode(<<"t","e","x","t">>, ExprText(evaluate(GetProp(node, <<"v","a","l","u","e">>).s, scope))) >>
  ELSE IF type = <<"m","d","x","_","j","s","x","_","e","l","e","m","e","n","t">> THEN renderJsxElement(node, key, scope, committed)
  ELSE IF type = <<"m","d","x","_","j","s","x","_","s","e","l","f","_","c","l","o","s","i","n","g">>
    THEN renderJsxSelfClosing(node, key, scope, committed)
  ELSE << TextNode(<<"d","i","v">>, <<"U","n","k","n","o","w","n"," ","n","o","d","e"," ","t","y","p","e",":"," ">> \o type) >>

NodeRenderer(node, key, scope, committed) ==
  IF ~IsStr(GetProp(node, <<"t","y","p","e">>)) THEN << TextNode(<<"d","i","v">>, <<"U","n","k","n","o","w","n"," ","n","o","d","e"," ","t","y","p","e",":"," ">>) >>
  ELSE NodeOfType(node, GetProp(node, <<"t","y","p","e">>).s, key, scope, committed)

\* The memoized EachItem at position pos: the committed subtree when an
\* instance is mounted there and the comparator says the props are equal.
EachItem(node, pos, itemScope, committed) ==
  LET mounted == FindItem(committed, pos)
  IN  IF mounted # NoOut /\ ItemPropsEqual(mounted.item, itemScope) THEN mounted
      ELSE OutNode(<<"E","a","c","h","I","t","e","m">>, <<>>, <<>>, pos, GetProp(itemScope, <<"i","t","e","m">>),
             << Element(<<"d","i","v",".","e","a","c","h","-","i","t","e","m">>,
                  renderChildren(GetProp(node, <<"c","h","i","l","d","r","e","n">>), pos, itemScope, committed)) >>)

\* A scope that holds the binding and the index and nothing of the parent.
ItemScopeReplaced(scope, asName, item, itemIndex) ==
  ObjOf(<< <<JSString(asName), item>>, <<<<"i","n","d","e","x">>, Num(itemIndex)>> >>)

\* const itemScope = { ...scope, [asName]: item, index: itemIndex }
ItemScope(scope, asName, item, itemIndex) ==
  Spread(scope, << <<JSString(asName), item>>, <<<<"i","n","d","e","x">>, Num(itemIndex)>> >>)

\* fromArray.map((item, itemIndex) => <EachItem key={itemKey} ... />)
RenderItems(node, key, scope, committed, fromArray, asName) ==
  [i \in 1..Len(fromArray) |->
    EachItem(node, Append(key, JSString(ItemKey(fromArray[i], i - 1))),
             ItemScope(scope, asName, fromArray[i], i - 1), committed)]

\* An imported component: its AST rendered with the attributes as props
\* and no components.
Imported(importedAst, attrs, key, scope, committed) ==
  << Element(<<"i","m","p","o","r","t","e","d">>,
       NodeRenderer(importedAst, Append(key, <<"i","m","p","o","r","t","e","d">>),
         Spread(scope, << <<<<"p","r","o","p","s">>, Obj(attrs)>>, <<<<"c","o","m","p","o","n","e","n","t","s">>, EmptyObj>> >>),
         committed)) >>

\* The Each branch, from the attributes from and as on.
Each(node, key, scope, committed, fromArray, asName) ==
  IF ~IsArr(fromArray) \/ ~Truthy(asName) THEN <<>>
  ELSE RenderItems(node, key, scope, committed, fromArray.a, asName)

\* renderJsxElement from componentName and attrs on.
JsxElementNamed(node, key, scope, committed, componentName, attrs, builtinKey, importedAst) ==
  IF ToLowerCase(componentName) = <<"e","a","c","h">>
    THEN Each(node, key, scope, committed, Attr(attrs, <<"f","r","o","m">>), Attr(attrs, <<"a","s">>))
  ELSE IF builtinKey # <<>>
    THEN << OutNode(builtinKey, attrs, <<>>, <<>>, Undef,
              renderChildren(GetProp(node, <<"c","h","i","l","d","r","e","n">>), key, scope, committed)) >>
  ELSE IF Truthy(importedAst) THEN Imported(importedAst, attrs, key, scope, committed)
  ELSE << Element(<<"d","i","v",".","u","n","k","n","o","w","n","-","c","o","m","p","o","n","e","n","t">>,
            renderChildren(GetProp(node, <<"c","h","i","l","d","r","e","n">>), key, scope, committed)) >>

\* const componentName = node.name?.trim()
ComponentName(node) == Trim(GetProp(node, <<"n","a","m","e">>).s)

renderJsxElement(node, key, scope, committed) ==
  JsxElementNamed(node, key, scope, committed, ComponentName(node),
                  parseAttributes(GetProp(node, <<"a","t","t","r","i","b","u","t","e","s">>), scope),
                  BuiltinKey(ComponentName(node)), ImportedAst(scope, ComponentName(node)))

\* renderJsxSelfClosing from componentName and attrs on.
JsxSelfClosingNamed(key, scope, committed, componentName, attrs, builtinKey, importedAst) ==
  IF builtinKey # <<>> THEN << OutNode(builtinKey, attrs, <<>>, <<>>, Undef, <<>>) >>
  ELSE IF Truthy(importedAst) THEN Imported(importedAst, attrs, key, scope, committed)
  ELSE << TextNode(<<"d","i","v">>, <<"U","n","k","n","o","w","n"," ","s","e","l","f","-","c","l","o","s","i","n","g"," ","c","o","m","p","o","n","e","n","t",":"," ">> \o componentName) >>

renderJsxSelfClosing(node, key, scope, committed) ==
  JsxSelfClosingNamed(key, scope, committed, ComponentName(node),
                      parseAttributes(GetProp(node, <<"a","t","t","r","i","b","u","t","e","s">>), scope),
                      BuiltinKey(ComponentName(node)), ImportedAst(scope, ComponentName(node)))

\* ------------------------------------------------------------------------
\* Rendering a document: the first render and the re-renders after updates
\* ------------------------------------------------------------------------
MaxItems == 2

\* AST nodes as zig-mdx delivers them.
AstNode(type, pairs) == ObjOf(<< <<<<"t","y","p","e">>, Str(type)>> >> \o pairs)
TextExpression(e) == AstNode(<<"m","d","x","_","t","e","x","t","_","e","x","p","r","e","s","s","i","o","n">>, << <<<<"v","a","l","u","e">>, Str(e)>> >>)
Literal(name, value) ==
  ObjOf(<< <<<<"n","a","m","e">>, Str(name)>>, <<<<"v","a","l","u","e">>, Str(value)>>, <<<<"t","y","p","e">>, Str(<<"l","i","t","e","r","a","l">>)>> >>)
Expression(name, value) ==
  ObjOf(<< <<<<"n","a","m","e">>, Str(name)>>, <<<<"v","a","l","u","e">>, Str(value)>>,
           <<<<"t","y","p","e">>, Str(<<"e","x","p","r","e","s","s","i","o","n">>)>> >>)
JsxElement(name, attributes, children) ==
  AstNode(<<"m","d","x","_","j","s","x","_","e","l","e","m","e","n","t">>,
    << <<<<"n","a","m","e">>, Str(name)>>, <<<<"a","t","t","r","i","b","u","t","e","s">>, Arr(attributes)>>,
       <<<<"c","h","i","l","d","r","e","n">>, Arr(children)>> >>)
JsxSelfClosing(name, attributes) ==
  AstNode(<<"m","d","x","_","j","s","x","_","s","e","l","f","_","c","l","o","s","i","n","g">>,
    << <<<<"n","a","m","e">>, Str(name)>>, <<<<"a","t","t","r","i","b","u","t","e","s">>, Arr(attributes)>> >>)
Root(children) == AstNode(<<"r","o","o","t">>, << <<<<"c","h","i","l","d","r","e","n">>, Arr(children)>> >>)

\* An imported component: it shows a prop, names itself, iterates with the
\* binding name components, and has an element no catalog knows.
CardAst ==
  Root(<< TextExpression(<<"p","r","o","p","s",".","t","i","t","l","e">>),
          JsxSelfClosing(<<"C","a","r","d">>, <<>>),
          JsxElement(<<"E","a","c","h">>, << Expression(<<"f","r","o","m">>, <<"q","u","e","r","i","e","s",".","e","v","e","n","t","s">>),
                                 Literal(<<"a","s">>, <<"c","o","m","p","o","n","e","n","t","s">>) >>,
                     << JsxSelfClosing(<<"c","o","n","t","e","n","t">>, <<>>) >>),
          JsxElement(<<"M","y","s","t","e","r","y">>, <<>>, << TextExpression(<<"p","r","o","p","s",".","t","i","t","l","e">>) >>) >>)

\* An imported component that shows a fixed text; the document imports it
\* under the local names Each and Text.
BadgeAst == Root(<< AstNode(<<"t","e","x","t">>, << <<<<"v","a","l","u","e">>, Str(<<"b","a","d","g","e">>)>> >>) >>)

Documents ==
  { Root(<< AstNode(<<"p","a","r","a","g","r","a","p","h">>,
              << <<<<"c","h","i","l","d","r","e","n">>,
                   Arr(<< AstNode(<<"t","e","x","t">>, << <<<<"v","a","l","u","e">>, Str(<<"N","o","t","e","s">>)>> >>) >>)>> >>),
            JsxElement(<<"E","a","c","h">>, << Expression(<<"f","r","o","m">>, <<"q","u","e","r","i","e","s",".","e","v","e","n","t","s">>),
                                   Literal(<<"a","s">>, <<"n","o","t","e">>) >>,
                       << TextExpression(<<"n","o","t","e",".","c","o","n","t","e","n","t"," ","|"," ","u","p","p","e","r","c","a","s","e">>) >>) >>),
    Root(<< JsxElement(<<"e","a","c","h">>, << Expression(<<"f","r","o","m">>, <<"q","u","e","r","i","e","s",".","e","v","e","n","t","s">>),
                                   Literal(<<"a","s">>, <<"i","t","e","m">>) >>,
                       << TextExpression(<<"i","t","e","m",".","c","o","n","t","e","n","t">>),
                          TextExpression(<<"i","n","d","e","x">>),
                          JsxElement(<<"t","e","x","t">>, << Expression(<<"v","a","l","u","e">>, <<"f","o","r","m",".","x">>) >>,
                                     <<>>) >>) >>),
    Root(<< AstNode(<<"f","r","o","n","t","m","a","t","t","e","r">>, << <<<<"v","a","l","u","e">>, Str(<<"t","i","t","l","e",":"," ","C","a","r","d","s">>)>> >>),
            JsxElement(<<"C","a","r","d">>, << Expression(<<"t","i","t","l","e">>, <<"f","o","r","m",".","x"," ","/","/"," ","'","u","n","t","i","t","l","e","d","'">>) >>, <<>>),
            JsxSelfClosing(<<"N","o","t","h","i","n","g">>, <<>>) >>),
    Root(<< JsxElement(<<"E","a","c","h">>, << Expression(<<"f","r","o","m">>, <<"q","u","e","r","i","e","s",".","e","v","e","n","t","s">>),
                                   Literal(<<"a","s">>, <<"i","n","d","e","x">>) >>,
                       << TextExpression(<<"i","n","d","e","x">>) >>) >>),
    Root(<< JsxElement(<<"E","a","c","h">>, << Expression(<<"f","r","o","m">>, <<"f","o","r","m",".","x">>),
                                   Literal(<<"a","s">>, <<"n","o","t","e">>) >>,
                       << TextExpression(<<"n","o","t","e">>) >>),
            JsxElement(<<"E","a","c","h">>, << Expression(<<"f","r","o","m">>, <<"q","u","e","r","i","e","s",".","e","v","e","n","t","s">>) >>,
                       << TextExpression(<<"i","n","d","e","x">>) >>),
            JsxElement(<<"E","a","c","h">>, << Expression(<<"f","r","o","m">>, <<"q","u","e","r","i","e","s",".","r","e","p","l","i","e","s">>),
                                   Literal(<<"a","s">>, <<"n","o","t","e">>) >>,
                       << TextExpression(<<"n","o","t","e",".","c","o","n","t","e","n","t">>) >>),
            TextExpression(<<"f","o","r","m",".","x">>) >>),
    Root(<< JsxSelfClosing(<<"E","a","c","h">>, << Expression(<<"f","r","o","m">>, <<"q","u","e","r","i","e","s",".","e","v","e","n","t","s">>),
                                       Literal(<<"a","s">>, <<"n","o","t","e">>) >>),
            JsxElement(<<"T","e","x","t">>, << Literal(<<"v","a","l","u","e">>, <<"h","e","l","l","o">>) >>, <<>>),
            JsxSelfClosing(<<"t","e","x","t">>, << Expression(<<"v","a","l","u","e">>, <<"f","o","r","m",".","x">>) >>),
            JsxElement(<<"M","y","s","t","e","r","y">>, <<>>, << TextExpression(<<"f","o","r","m",".","x">>) >>),
            JsxSelfClosing(<<"C","a","r","d">>, <<>>),
            TextExpression(<<"f","o","r","m",".","x">>) >>) }

ItemIds == { <<"e","1">>, <<"e","2">> }
ItemContents == { <<"h","i">>, <<"y","o">> }

RECURSIVE ItemLists(_)
ItemLists(n) ==
  IF n = 0 THEN { <<>> }
  ELSE ItemLists(n - 1) \cup
         { Append(l, EventObj(id, c)) :
             l \in {x \in ItemLists(n - 1) : Len(x) = n - 1}, id \in ItemIds, c \in ItemContents }

\* Lists of items in which no id occurs twice.
EventLists ==
  { l \in ItemLists(MaxItems) :
      \A i, j \in 1..Len(l) : i # j => GetProp(l[i], <<"i","d">>) # GetProp(l[j], <<"i","d">>) }

FormTexts == { <<>>, <<"a">> }

\* The scope the page context provides, with the resolved imports.
RenderScope(events, x) ==
  ObjOf(<< <<<<"p","r","o","p","s">>, EmptyObj>>,
           <<<<"q","u","e","r","i","e","s">>, ObjOf(<< <<<<"e","v","e","n","t","s">>, Arr(events)>> >>)>>,
           <<<<"s","t","a","t","e">>, EmptyObj>>,
           <<<<"f","o","r","m">>, ObjOf(<< <<<<"x">>, Str(x)>> >>)>>,
           <<<<"u","s","e","r">>, Undef>>,
           <<<<"i","t","e","m">>, Undef>>,
           <<<<"i","n","d","e","x">>, Num(0)>>,
           <<<<"c","o","m","p","o","n","e","n","t","s">>, ObjOf(<< <<<<"C","a","r","d">>, CardAst>>, <<<<"E","a","c","h">>, BadgeAst>>,
                                     <<<<"T","e","x","t">>, BadgeAst>> >>)>>,
           <<<<"u","p","d","a","t","e","F","o","r","m">>, Fn>>,
           <<<<"e","x","e","c","u","t","e","A","c","t","i","o","n">>, Fn>>,
           <<<<"i","s","P","u","b","l","i","s","h","i","n","g">>, Bool(FALSE)>> >>)

\* <NodeRenderer node={ast} keyName="root" scope={scope} />, on top of the
\* committed tree.
RenderDocument(ast, scope, committed) == NodeRenderer(ast, << <<"r","o","o","t">> >>, scope, committed)

RenderInit ==
  /\ doc \in Documents
  /\ rscope = RenderScope(<<>>, <<>>)
  /\ output = RenderDocument(doc, rscope, <<>>)

\* The query delivers a new list of items; the document is rendered again.
EventsUpdate(events) ==
  /\ Arr(events) # GetProp(GetProp(rscope, <<"q","u","e","r","i","e","s">>), <<"e","v","e","n","t","s">>)
  /\ rscope' = Spread(rscope, << <<<<"q","u","e","r","i","e","s">>, ObjOf(<< <<<<"e","v","e","n","t","s">>, Arr(events)>> >>)>> >>)
  /\ output' = RenderDocument(doc, rscope', output)
  /\ UNCHANGED doc
  /\ UNCHANGED <<evalVars, pageVars, importVars, actionVars, sessionVars, queryVars>>

\* The form state changes; the document is rendered again.
FormUpdate(x) ==
  /\ Str(x) # GetProp(GetProp(rscope, <<"f","o","r","m">>), <<"x">>)
  /\ rscope' = Spread(rscope, << <<<<"f","o","r","m">>, ObjOf(<< <<<<"x">>, Str(x)>> >>)>> >>)
  /\ output' = RenderDocument(doc, rscope', output)
  /\ UNCHANGED doc
  /\ UNCHANGED <<evalVars, pageVars, importVars, actionVars, sessionVars, queryVars>>

RenderNext ==
  \/ \E events \in EventLists : EventsUpdate(events)
  \/ \E x \in FormTexts : FormUpdate(x)

SessionInit ==
  /\ editorPublishing = FALSE
  /\ copying = "none"
  /\ requests = {}

SessionIdle == SessionInit

\* ---- the query and the queries object
\* The frontmatters: each of the query keys profile, event, address, filter
\* declared or not (profile also declared empty), and no frontmatter.
DeclaredKeys(profile, event, address, filter) ==
  ObjOf(<< <<<<"t","i","t","l","e">>, Str(<<"F","e","e","d">>)>> >>
        \o (IF profile = "absent" THEN <<>>
            ELSE << <<<<"p","r","o","f","i","l","e">>, IF profile = "empty" THEN Str(<<>>) ELSE Str(<<"n","p","u","b","1">>)>> >>)
        \o (IF event THEN << <<<<"e","v","e","n","t">>, Str(<<"e","v","1">>)>> >> ELSE <<>>)
        \o (IF address THEN << <<<<"a","d","d","r","e","s","s">>, ObjOf(<< <<<<"k","i","n","d">>, Num(30023)>>,
                                                     <<<<"p","u","b","k","e","y">>, Str(<<"p","k","9">>)>>,
                                                     <<<<"i","d","e","n","t","i","f","i","e","r">>, Str(<<"a">>)>> >>)>> >>
            ELSE <<>>)
        \o (IF filter THEN << <<<<"f","i","l","t","e","r">>, ObjOf(<< <<<<"k","i","n","d","s">>, Arr(<< Num(1) >>)>> >>)>> >>
            ELSE <<>>))

Frontmatters ==
  { DeclaredKeys(p, e, a, f) :
      p \in {"absent", "empty", "set"}, e \in BOOLEAN, a \in BOOLEAN, f \in BOOLEAN }
  \cup { Null }

\* What useNostrQuery returns: nothing yet, one event or profile, a list.
Deliveries ==
  { Undef,
    ObjOf(<< <<<<"i","d">>, Str(<<"e","1">>)>>, <<<<"c","o","n","t","e","n","t">>, Str(<<"h","i">>)>> >>),
    Arr(<<>>),
    Arr(<< ObjOf(<< <<<<"i","d">>, Str(<<"e","1">>)>> >>) >>),
    Arr(<< ObjOf(<< <<<<"i","d">>, Str(<<"e","1">>)>> >>), ObjOf(<< <<<<"i","d">>, Str(<<"e","2">>)>> >>) >>) }

QueryInit ==
  /\ declared \in Frontmatters
  /\ delivered = Undef
  /\ scopeQueries = Queries(declared, Undef)

QueryIdle ==
  /\ declared = Null
  /\ delivered = Undef
  /\ scopeQueries = Queries(Null, Undef)

\* useNostrQuery returns a new value and the queries memo is computed again.
Delivery(qr) ==
  /\ delivered' = qr
  /\ scopeQueries' = Queries(declared, qr)
  /\ UNCHANGED declared
  /\ UNCHANGED <<evalVars, pageVars, renderVars, importVars, actionVars, sessionVars>>

\* The document is edited: the frontmatter prop changes, the query memo and
\* the queries memo are computed again; qr is what the hook returns in that
\* render (the value of the earlier query or that of the new one).
FrontmatterChanges(fm, qr) ==
  /\ fm # declared
  /\ declared' = fm
  /\ delivered' = qr
  /\ scopeQueries' = Queries(fm, qr)
  /\ UNCHANGED <<evalVars, pageVars, renderVars, importVars, actionVars, sessionVars>>

QueryNext ==
  \/ \E qr \in Deliveries : Delivery(qr)
  \/ \E fm \in Frontmatters, qr \in Deliveries : FrontmatterChanges(fm, qr)

RenderIdle ==
  /\ doc = EmptyObj
  /\ rscope = EmptyObj
  /\ output = <<>>

EvalIdle ==
  /\ expr = <<>>
  /\ escope = EmptyObj
  /\ result = Pending
  /\ clock = ClockStart

PageIdle ==
  /\ form = <<>>
  /\ isPublishing = FALSE
  /\ queryResult = Undef
  /\ isReadonly = FALSE
  /\ pageScope = Snapshot(<<>>, FALSE, Undef)
  /\ inflight = EmptyBag
  /\ lastDone = NoDone
  /\ entered = <<>>
  /\ offered = {}

\* ------------------------------------------------------------------------
\* The component imports of one document: useComponents and its usePage calls
\* ------------------------------------------------------------------------
MaxImports == 5

\* component0 .. component3
NumSlots == 4

\* An address nip19.decode accepts as an naddr, and one it rejects.
GoodAddress == <<"n","a","d","d","r","1","c","a","r","d">>
BadAddress == <<"n","o","t","e","1","c","a","r","d">>
Addresses == {GoodAddress, BadAddress}

\* nip19.decode(naddr) gives an naddr (parsed is not null).
DecodesToNaddr(naddr) == naddr = GoodAddress

\* The content of the component events the relay holds: a JSON AST, and a
\* text JSON.parse rejects.
ParseableContent == <<"{","\"","n","a","m","e","\"",":","\"","B","o","b","\"","}">>
BrokenContent == <<"{","o","o","p","s">>
Contents == {ParseableContent, BrokenContent}

\* The local names of the declared imports, in declaration order.
LocalName(i) == <<"C">> \o IntToStr(i)

RECURSIVE EntryLists(_)
EntryLists(n) ==
  IF n = 0 THEN { <<>> }
  ELSE EntryLists(n - 1) \cup
       { Append(l, <<LocalName(n), a>>) : l \in {x \in EntryLists(n - 1) : Len(x) = n - 1},
                                         a \in Addresses }

\* usePage(importEntries[i]?.[1] ?? ""): the address slot i subscribes to,
\* "" for a slot without an entry.
SlotAddress(entries, i) == IF i <= Len(entries) THEN entries[i][2] ELSE <<>>

\* result[name] = JSON.parse(event.content) with the SyntaxError let through.
StoreParsedUncaught(res, name, parsed) ==
  IF IsThrow(parsed) THEN <<>>
  ELSE [k \in DOMAIN res \cup {name} |-> IF k = name THEN parsed ELSE res[k]]

\* try { result[name] = JSON.parse(event.content) } catch { }
StoreParsed(res, name, parsed) ==
  IF IsThrow(parsed) THEN res
  ELSE [k \in DOMAIN res \cup {name} |-> IF k = name THEN parsed ELSE res[k]]

\* One pass of the loop of useComponents.
StoreComponent(res, name, event) ==
  IF Truthy(event) THEN StoreParsed(res, name, JSONParse(GetProp(event, <<"c","o","n","t","e","n","t">>).s))
  ELSE res

\* for (let i = 0; i < importEntries.length && i < 4; i++), i counted from 1.
RECURSIVE ComponentsLoop(_, _, _, _)
ComponentsLoop(entries, events, i, res) ==
  IF ~(i <= Len(entries) /\ i <= NumSlots) THEN Obj(res)
  ELSE ComponentsLoop(entries, events, i + 1,
                      StoreComponent(res, entries[i][1], events[i]))

\* useComponents(imports): the components map of the current render.
useComponents(entries, events) == ComponentsLoop(entries, events, 1, <<>>)

\* The event a relay delivers for a component.
ComponentEvent(content) == ObjOf(<< <<<<"c","o","n","t","e","n","t">>, Str(content)>> >>)

ImportsInit ==
  /\ importEntries \in EntryLists(MaxImports)
  /\ component = [i \in 1..NumSlots |-> Undef]
  /\ failed = {}

\* The subscription of slot i delivers its first event.
Delivers(i, content) ==
  /\ DecodesToNaddr(SlotAddress(importEntries, i))
  /\ component[i] = Undef
  /\ i \notin failed
  /\ component' = [component EXCEPT ![i] = ComponentEvent(content)]
  /\ UNCHANGED <<importEntries, failed>>
  /\ UNCHANGED <<evalVars, pageVars, renderVars, actionVars, sessionVars, queryVars>>

\* The subscription of slot i ends without an event: usePage stays undefined.
FetchFails(i) ==
  /\ DecodesToNaddr(SlotAddress(importEntries, i))
  /\ component[i] = Undef
  /\ i \notin failed
  /\ failed' = failed \cup {i}
  /\ UNCHANGED <<importEntries, component>>
  /\ UNCHANGED <<evalVars, pageVars, renderVars, actionVars, sessionVars, queryVars>>

ImportsNext ==
  \/ \E i \in 1..NumSlots, content \in Contents : Delivers(i, content)
  \/ \E i \in 1..NumSlots : FetchFails(i)

ImportIdle ==
  /\ importEntries = <<>>
  /\ component = <<>>
  /\ failed = {}

\* ------------------------------------------------------------------------
\* One run of executeAction from the scope to the event template
\* ------------------------------------------------------------------------
\* Declarations of frontmatter.actions.
ActionDefs ==
  { ObjOf(<< <<<<"k","i","n","d">>, Num(1)>>, <<<<"c","o","n","t","e","n","t">>, Str(<<"f","o","r","m",".","c","o","n","t","e","n","t">>)>> >>),
    ObjOf(<< <<<<"k","i","n","d">>, Str(<<"3","0","0","7","8">>)>>,
             <<<<"c","o","n","t","e","n","t">>, ObjOf(<< <<<<"b">>, Str(<<"f","o","r","m",".","b">>)>>, <<<<"c">>, Str(<<"f","o","r","m",".","c">>)>>,
                                    <<<<"n">>, Num(5)>>, <<<<"t">>, Bool(TRUE)>>,
                                    <<<<"a","t">>, Str(<<"n","o","w">>)>>, <<<<"b","y">>, Str(<<"u","s","e","r">>)>>,
                                    <<<<"t","i","t","l","e">>, Str(<<"s","t","a","t","e",".","t","i","t","l","e">>)>>,
                                    <<<<"l","i","t">>, Str(<<"h","e","l","l","o">>)>> >>)>>,
             <<<<"t","a","g","s">>, Arr(<< Arr(<< Str(<<"d">>), Str(<<"u","s","e","r",".","p","u","b","k","e","y">>) >>),
                               Arr(<< Str(<<"t">>), Num(7), Str(<<"n","o","w">>) >>) >>)>> >>),
    ObjOf(<< <<<<"k","i","n","d">>, Num(0)>>, <<<<"b","a","s","e">>, Str(<<"q","u","e","r","i","e","s",".","e","v","e","n","t",".","c","o","n","t","e","n","t">>)>>,
             <<<<"c","o","n","t","e","n","t">>, ObjOf(<< <<<<"b">>, Str(<<"f","o","r","m",".","b">>)>>,
                                    <<<<"c">>, Str(<<"f","o","r","m",".","c">>)>> >>)>> >>),
    ObjOf(<< <<<<"k","i","n","d">>, Num(0)>>, <<<<"b","a","s","e">>, Str(<<"q","u","e","r","i","e","s",".","p","r","o","f","i","l","e">>)>>,
             <<<<"c","o","n","t","e","n","t">>, ObjOf(<< <<<<"b">>, Str(<<"f","o","r","m",".","b">>)>>,
                                    <<<<"c">>, Str(<<>>)>> >>)>> >>),
    ObjOf(<< <<<<"k","i","n","d">>, Num(0)>>, <<<<"b","a","s","e">>, Str(<<"f","o","r","m",".","r","a","w">>)>>,
             <<<<"c","o","n","t","e","n","t">>, ObjOf(<< <<<<"b">>, Str(<<"f","o","r","m",".","b">>)>> >>)>> >>),
    ObjOf(<< <<<<"k","i","n","d">>, Num(0)>>, <<<<"b","a","s","e">>, Str(<<"q","u","e","r","i","e","s",".","p","r","o","f","i","l","e">>)>>,
             <<<<"c","o","n","t","e","n","t">>, Str(<<"f","o","r","m",".","c","o","n","t","e","n","t">>)>> >>),
    ObjOf(<< <<<<"k","i","n","d">>, Num(7)>>,
             <<<<"c","o","n","t","e","n","t">>, ObjOf(<< <<<<"o","u","t","e","r">>, ObjOf(<< <<<<"i","n","n","e","r">>, Str(<<"q","u","e","r","i","e","s",".","p","r","o","f","i","l","e",".","a">>)>>,
                                                         <<<<"w","h","o">>, Str(<<"u","s","e","r",".","p","u","b","k","e","y">>)>> >>)>> >>)>>,
             <<<<"t","a","g","s">>, Arr(<< Arr(<< Str(<<"e">>), Str(<<"f","o","r","m",".","b">>) >>) >>)>> >>),
    ObjOf(<< <<<<"k","i","n","d">>, Str(<<"n","o","t","e">>)>>, <<<<"c","o","n","t","e","n","t">>, Num(5)>> >>),
    ObjOf(<< <<<<"k","i","n","d">>, Num(4)>> >>) }

\* What the form holds when the action runs.
ActionForms ==
  { <<>>,
    [k \in {<<"b">>, <<"c">>, <<"c","o","n","t","e","n","t">>, <<"r","a","w">>} |->
      CASE k = <<"b">> -> Str(<<"3">>) [] k = <<"c">> -> Str(<<>>)
        [] k = <<"c","o","n","t","e","n","t">> -> Str(<<"h","e","l","l","o">>) [] OTHER -> Str(<<"{","o","o","p","s">>)],
    [k \in {<<"b">>, <<"c">>, <<"c","o","n","t","e","n","t">>, <<"r","a","w">>} |->
      CASE k = <<"b">> -> Str(<<>>) [] k = <<"c">> -> Str(<<"x">>)
        [] k = <<"c","o","n","t","e","n","t">> -> Str(<<"{","\"","a","\"",":","\"","1","\"",",","\"","b","\"",":","\"","2","\"","}">>) [] OTHER -> Str(<<"{","}">>)] }

\* What the queries of the document hold when the action runs.
ActionQueries ==
  { ObjOf(<< <<<<"p","r","o","f","i","l","e">>, Undef>>, <<<<"e","v","e","n","t">>, Undef>> >>),
    ObjOf(<< <<<<"p","r","o","f","i","l","e">>, ObjOf(<< <<<<"a">>, Str(<<"1">>)>>, <<<<"b">>, Str(<<"2">>)>> >>)>>,
             <<<<"e","v","e","n","t">>, ObjOf(<< <<<<"c","o","n","t","e","n","t">>, Str(<<"{","\"","a","\"",":","\"","1","\"",",","\"","b","\"",":","\"","2","\"","}">>)>> >>)>> >>),
    ObjOf(<< <<<<"p","r","o","f","i","l","e">>, ObjOf(<< <<<<"a">>, Str(<<>>)>>, <<<<"z">>, Num(9)>> >>)>>,
             <<<<"e","v","e","n","t">>, ObjOf(<< <<<<"c","o","n","t","e","n","t">>, Str(<<"{","o","o","p","s">>)>> >>)>> >>) }

\* nostr.pubkey
ActionUsers == { Undef, UserPubkey }

ActionInit ==
  /\ actDef \in ActionDefs
  /\ \E f \in ActionForms, queries \in ActionQueries, pubkey \in ActionUsers :
       actScope = ActionScope(Frontmatter, queries, f, pubkey)
  /\ template = Pending
  /\ clock \in {ClockStart, ClockStart + 1}
  /\ expr = <<>>
  /\ escope = EmptyObj
  /\ result = Pending

\* executeAction from evalScope to the call of nostr.signer.signEvent.
BuildEvent ==
  /\ template = Pending
  /\ template' = EventTemplate(actDef, actScope)
  /\ UNCHANGED <<actDef, actScope>>
  /\ UNCHANGED <<evalVars, pageVars, renderVars, importVars, sessionVars, queryVars>>

InitAction == ActionInit /\ PageIdle /\ RenderIdle /\ ImportIdle /\ SessionIdle /\ QueryIdle
SpecAction == InitAction /\ [][BuildEvent]_vars

ActionIdle ==
  /\ actDef = EmptyObj
  /\ actScope = EmptyObj
  /\ template = Pending

\* ------------------------------------------------------------------------
\* The session: publishing a page from the editor, copying a listed page
\* ------------------------------------------------------------------------
\* The pages the home list shows.
PageIds == {"p1"}

PublishRequest == [by |-> "publish", page |-> "none", stage |-> "signing"]
CopyRequest(page) == [by |-> "copy", page |-> page, stage |-> "signing"]

\* handlePublish of Editor up to its first await: the early return of a
\* read-only session (after an alert), then the flag, the frontmatter and the
\* call of the signer; a document without frontmatter throws into the catch
\* block, which alerts, and the flag is reset.
HandlePublish(hasFrontmatter) ==
  IF isReadonly THEN UNCHANGED <<editorPublishing, requests>>
  ELSE IF ~hasFrontmatter THEN UNCHANGED <<editorPublishing, requests>>
  ELSE /\ editorPublishing' = TRUE
       /\ requests' = requests \cup {PublishRequest}

\* The Publish button of Editor: disabled={isPublishing || isReadonly}.
PublishDisabled == editorPublishing \/ isReadonly

\* A click on the Publish button.
PressPublish(hasFrontmatter) ==
  /\ ~PublishDisabled
  /\ HandlePublish(hasFrontmatter)
  /\ UNCHANGED copying
  /\ UNCHANGED <<evalVars, pageVars, renderVars, importVars, actionVars, queryVars>>

\* handleCopyToDrafts(page) of Home up to its first await: the early return
\* of a read-only session (after an alert), then setCopying, JSON.parse of the
\* page content and the call of the signer; a content that does not parse
\* throws into the catch block, which alerts, and copying is reset.
HandleCopyToDrafts(page, parses) ==
  IF isReadonly THEN UNCHANGED <<copying, requests>>
  ELSE IF ~parses
    THEN /\ copying' = "none"
         /\ UNCHANGED requests
  ELSE /\ copying' = page
       /\ requests' = requests \cup {CopyRequest(page)}

\* The Copy to Drafts button of a listed page:
\* disabled={copying === page.id || isReadonly}.
CopyDisabled(page) == copying = page \/ isReadonly

\* A click on the Copy to Drafts button of a page.
PressCopy(page, parses) ==
  /\ ~CopyDisabled(page)
  /\ HandleCopyToDrafts(page, parses)
  /\ UNCHANGED editorPublishing
  /\ UNCHANGED <<evalVars, pageVars, renderVars, importVars, actionVars, queryVars>>

\* The end of a handlePublish or handleCopyToDrafts call: its alert, then
\* setIsPublishing(false) or setCopying(null).
SessionFinish(r) ==
  /\ requests' = requests \ {r}
  /\ editorPublishing' = IF r.by = "publish" THEN FALSE ELSE editorPublishing
  /\ copying' = IF r.by = "copy" THEN "none" ELSE copying
  /\ UNCHANGED <<evalVars, pageVars, renderVars, importVars, actionVars, queryVars>>

\* signEvent resolves: validateEvent passes and pool.publish is called, or
\* it fails and the handler throws.
SessionSignerReturns(r, valid) ==
  /\ r.stage = "signing"
  /\ IF valid
       THEN /\ requests' = (requests \ {r}) \cup {[r EXCEPT !.stage = "publishing"]}
            /\ UNCHANGED <<editorPublishing, copying>>
            /\ UNCHANGED <<evalVars, pageVars, renderVars, importVars, actionVars, queryVars>>
       ELSE SessionFinish(r)

\* signEvent rejects.
SessionSignerErrors(r) ==
  /\ r.stage = "signing"
  /\ SessionFinish(r)

\* pool.publish resolves or rejects: every outcome ends the call (handlePublish
\* throws when no destination took the event, handleCopyToDrafts does not
\* look at the result).
SessionPublishSettles(r) ==
  /\ r.stage = "publishing"
  /\ SessionFinish(r)

\* The session: a document's actions, the editor's Publish button and the
\* home list's Copy to Drafts buttons.
SessionNext ==
  \/ \E name \in Fields : \E value \in UserValues(name) :
       UpdateForm(name, value)
  \/ \E a \in ActionNames \cup {<<"n","o","p","e">>} : Click(a)
  \/ \E e \in BagToSet(inflight) : SignerReturns(e)
  \/ \E e \in BagToSet(inflight) : SignerErrors(e)
  \/ \E e \in BagToSet(inflight), n \in 0..NumRelays :
       PublishReturns(e, n)
  \/ \E e \in BagToSet(inflight) : PublishErrors(e)
  \/ \E hasFrontmatter \in BOOLEAN : PressPublish(hasFrontmatter)
  \/ \E page \in PageIds, parses \in BOOLEAN : PressCopy(page, parses)
  \/ \E r \in requests, valid \in BOOLEAN : SessionSignerReturns(r, valid)
  \/ \E r \in requests : SessionSignerErrors(r)
  \/ \E r \in requests : SessionPublishSettles(r)

Init == PageInit /\ EvalIdle /\ RenderIdle /\ ImportIdle /\ ActionIdle /\ SessionIdle /\ QueryIdle
Next == PageNext
Spec == Init /\ [][Next]_vars

InitEval == EvalInit /\ PageIdle /\ RenderIdle /\ ImportIdle /\ ActionIdle /\ SessionIdle /\ QueryIdle
SpecEval == InitEval /\ [][Evaluate]_vars

InitRender == RenderInit /\ PageIdle /\ EvalIdle /\ ImportIdle /\ ActionIdle /\ SessionIdle /\ QueryIdle

InitImports == ImportsInit /\ PageIdle /\ EvalIdle /\ RenderIdle /\ ActionIdle /\ SessionIdle /\ QueryIdle
SpecImports == InitImports /\ [][ImportsNext]_vars
SpecRender == InitRender /\ [][RenderNext]_vars

InitSession == PageInit /\ SessionInit /\ EvalIdle /\ RenderIdle /\ ImportIdle /\ ActionIdle /\ QueryIdle
SpecSession == InitSession /\ [][SessionNext]_vars

InitQueries ==
  QueryInit /\ PageIdle /\ EvalIdle /\ RenderIdle /\ ImportIdle /\ ActionIdle /\ SessionIdle
SpecQueries == InitQueries /\ [][QueryNext]_vars

SignerSettles ==
  \E e \in BagToSet(inflight) : SignerReturns(e) \/ SignerErrors(e)

PublishSettles ==
  \E e \in BagToSet(inflight) :
    (\E n \in 0..NumRelays : PublishReturns(e, n)) \/ PublishErrors(e)

\* The collaborators settle: a call of the signer and a call of pool.publish
\* each resolve or reject in the end.
FairSpec ==
  /\ Spec
  /\ WF_vars(SignerSettles)
  /\ WF_vars(PublishSettles)

\* ------------------------------------------------------------------------
\* Properties
\* ------------------------------------------------------------------------
Failures == {"signerError", "publishError", "zeroAccept"}
Settled == Failures \cup {"success"}
DeclaresClear(actionName) ==
  Truthy(GetProp(GetProp(GetProp(Frontmatter, <<"a","c","t","i","o","n","s">>), actionName), <<"c","l","e","a","r">>))

\* C1: at most one action execution is in flight at any time: a trigger
\* while an earlier execution has not finished hands nothing to the signer.
C1_AtMostOneInFlight == BagCardinality(inflight) <= 1

\* C2: a step that ends an execution in a failure (signer error, publish
\* error, publish accepted by no destination) leaves every form field as it
\* was, whether or not the action declares clear.
C2_FailureKeepsForm ==
  [][lastDone'.outcome \in Failures => form' = form /\ entered' = entered]_vars

\* C2 witness: an action that declares clear has failed and the form still
\* holds what the user typed.
C2_FailedClearKeptInput ==
  /\ lastDone.outcome \in Failures
  /\ DeclaresClear(lastDone.action)
  /\ <<"n","a","m","e">> \in DOMAIN entered
  /\ form[<<"n","a","m","e">>] = Str(<<"h","i">>)

\* C3: the form becomes empty exactly in the step in which an action that
\* declares clear ends with an accepted publish; an accepted publish of an
\* action without clear leaves the form as it was, and no other step
\* empties the form.
C3_ClearOnlyAfterAcceptedPublish ==
  [][ /\ (lastDone'.outcome = "success" /\ DeclaresClear(lastDone'.action))
           => form' = <<>>
      /\ (lastDone'.outcome = "success" /\ ~DeclaresClear(lastDone'.action))
           => form' = form
      /\ (form' = <<>> /\ form # <<>>)
           => (lastDone'.outcome = "success" /\ DeclaresClear(lastDone'.action))
    ]_vars

\* C3 witness: an accepted publish of the clearing action has emptied the form.
C3_ClearedAfterSuccess ==
  /\ lastDone.outcome = "success"
  /\ DeclaresClear(lastDone.action)
  /\ form = <<>>

C6_SuccessNeedsAcceptance ==
  [][(lastDone'.outcome \in Settled /\ lastDone'.accepted = 0)
       => /\ lastDone'.outcome # "success"
          /\ lastDone'.message # "none"
          /\ form' = form]_vars

\* C6 witness: a publish that no destination accepted has ended.
C6_ZeroAcceptanceEnded ==
  /\ lastDone.outcome = "zeroAccept"
  /\ lastDone.accepted = 0
  /\ lastDone.message = "alert: Failed to publish to any relay"

\* C7: the publishing flag is true exactly while an execution is in flight.
C7_FlagIffInFlight == isPublishing <=> (inflight # EmptyBag)

\* C8: the step that ends an execution leaves the publishing flag false,
\* after a success and after each failure, and with collaborators that
\* settle a flag that is true becomes false again.
C8_FlagResetAtEnd ==
  /\ [][lastDone'.outcome \in Settled => ~isPublishing']_vars
  /\ isPublishing ~> ~isPublishing

\* C8 witness: an execution ended with a signer error and the flag is false.
C8_FlagFalseAfterSignerError ==
  /\ lastDone.outcome = "signerError"
  /\ ~isPublishing

\* C9: evaluate returns a value or undefined and never raises.
C9_EvaluateNeverRaises == result # Throw

\* C9 witness: evaluate has returned undefined for malformed JSON given to
\* fromjson and for a path through a missing segment.
C9_AbsentForBadInput ==
  /\ result = Undef
  /\ expr \in { <<"n","o","t","e",".","b","a","d"," ","|"," ","f","r","o","m","j","s","o","n">>, <<"n","o","t","e",".","n","o",".","x">> }
  /\ escope # EmptyObj

\* An imported component's output inside an imported component's output.
RECURSIVE ImportInside(_, _)
ImportInside(outs, inImport) ==
  \E i \in 1..Len(outs) :
    \/ inImport /\ outs[i].el = <<"i","m","p","o","r","t","e","d">>
    \/ ImportInside(outs[i].kids, inImport \/ outs[i].el = <<"i","m","p","o","r","t","e","d">>)

\* C5: inside the output of an imported component no element is rendered
\* as an imported definition: every name that is no built-in and not the
\* iteration construct gets the unknown-element handling.
C5_NoImportInsideImport == ~ImportInside(output, FALSE)

\* C10: after every update the committed output is what rendering the
\* document against the current scope gives, item subtrees included.
C10_OutputIsFreshRender == output = RenderDocument(doc, rscope, <<>>)

\* ---- imports
\* The components map of the current render.
Components == useComponents(importEntries, component)

\* Entry i has a usePage call and that call has returned an event.
Delivered(i) == i \in DOMAIN component /\ Truthy(component[i])

\* Entry i has resolved: its event has arrived and its content parses.
Resolved(i) ==
  Delivered(i) /\ ~IsThrow(JSONParse(GetProp(component[i], <<"c","o","n","t","e","n","t">>).s))

\* What a document that uses entry i as <Ci/> renders with the current
\* components map.
UsageOutput(i) ==
  RenderDocument(Root(<< JsxSelfClosing(importEntries[i][1], <<>>) >>),
                 Spread(RenderScope(<<>>, <<>>), << <<<<"c","o","m","p","o","n","e","n","t","s">>, Components>> >>),
                 <<>>)

NoFetchOutstanding ==
  \A i \in DOMAIN component :
    DecodesToNaddr(SlotAddress(importEntries, i)) => Delivered(i) \/ i \in failed

\* C12: no cap on the number of imports.  Once no fetch is outstanding,
\* every declared entry with a decodable address is in the components map,
\* unless its own fetch ended without an event or delivered content that
\* does not parse; this holds however many entries are declared.
C12_NoCapOnImports ==
  NoFetchOutstanding =>
    \A i \in 1..Len(importEntries) :
      DecodesToNaddr(importEntries[i][2]) =>
        \/ importEntries[i][1] \in DOMAIN Components.o
        \/ i \in failed
        \/ Delivered(i) /\ ~Resolved(i)

\* ------------------------------------------------------------------------
\* Reference defaults
\* ------------------------------------------------------------------------
\* The form fields whose declared default is a queries.* or state.* reference.
ReferenceFields ==
  {k \in Fields : IsStr(GetProp(Frontmatter, <<"f","o","r","m">>).o[k])
                    /\ IsReference(GetProp(Frontmatter, <<"f","o","r","m">>).o[k].s)}

\* What the reference of field k evaluates to when the query result is qr.
ReferencedValue(k, qr, f) ==
  evaluate(GetProp(Frontmatter, <<"f","o","r","m">>).o[k].s,
           DefaultsScope(Frontmatter, Queries(Frontmatter, qr), f))

Unset(f, k) == k \notin DOMAIN f \/ ~Truthy(f[k])

\* A step in which the effect on [queries, frontmatter?.form] runs.
ReferenceEffectRuns ==
  FormDeclChanged \/ \E qr \in QueryResults : QueryArrives(qr)

ReferenceFieldSeeded(k) ==
  /\ (IsNullish(ReferencedValue(k, queryResult', form)) /\ k \notin DOMAIN form)
       => k \notin DOMAIN form'
  /\ (~IsNullish(ReferencedValue(k, queryResult', form)) /\ Unset(form, k))
       => /\ k \in DOMAIN form'
          /\ form'[k] = Str(JSString(ReferencedValue(k, queryResult', form)))

\* C13: when the reference-defaults effect runs, a field whose default is a
\* queries.* or state.* reference is not written while the referenced value
\* is unavailable, and is set to the string form of the value when the value
\* is available and the field is unset or empty -- for both kinds of
\* reference.
C13_ReferenceDefaultSetOnceAvailable ==
  [][ReferenceEffectRuns => \A k \in ReferenceFields : ReferenceFieldSeeded(k)]_vars

\* ------------------------------------------------------------------------
\* Form storage
\* ------------------------------------------------------------------------
\* C14: every value stored in the form state is a string, whichever of
\* literal seeding, reference resolution, a user edit or the clear reset
\* wrote the state last.
C14_FormValuesAreStrings ==
  \A k \in DOMAIN form : IsStr(form[k])

\* C14 witness: the form holds a seeded literal, a reference default resolved
\* from a number and a value the user typed; the default declared as a
\* number was not stored.
C14_SeededResolvedAndTyped ==
  /\ form[<<"c","o","n","t","e","n","t">>] = Str(<<"d","r","a","f","t">>)
  /\ <<"l","i","m","i","t">> \in DOMAIN form /\ form[<<"l","i","m","i","t">>] = Str(<<"2","0">>)
  /\ <<"n","a","m","e">> \in DOMAIN form /\ form[<<"n","a","m","e">>] = Str(<<"h","i">>)
  /\ <<"c","o","u","n","t">> \notin DOMAIN form

\* ------------------------------------------------------------------------
\* Iteration
\* ------------------------------------------------------------------------
\* The Each elements among the children of the root of ast.
EachElements(ast) ==
  {c \in {GetProp(ast, <<"c","h","i","l","d","r","e","n">>).a[i] : i \in 1..Len(GetProp(ast, <<"c","h","i","l","d","r","e","n">>).a)} :
     /\ GetProp(c, <<"t","y","p","e">>) = Str(<<"m","d","x","_","j","s","x","_","e","l","e","m","e","n","t">>)
     /\ ToLowerCase(ComponentName(c)) = <<"e","a","c","h">>}

EachAttr(n, name) == Attr(parseAttributes(GetProp(n, <<"a","t","t","r","i","b","u","t","e","s">>), rscope), name)

\* The Each element n passes both early returns.
Iterates(n) == IsArr(EachAttr(n, <<"f","r","o","m">>)) /\ Truthy(EachAttr(n, <<"a","s">>))

\* child has the entries of parent, those named asName and index apart.
SameElsewhere(child, parent, asName) ==
  /\ DOMAIN child.o = DOMAIN parent.o \cup {asName, <<"i","n","d","e","x">>}
  /\ \A k \in DOMAIN parent.o \ {asName, <<"i","n","d","e","x">>} : child.o[k] = parent.o[k]

ShadowsAsStated(child, parent, asName, item, itemIndex) ==
  /\ SameElsewhere(child, parent, asName)
  /\ child.o[asName] = item
  /\ child.o[<<"i","n","d","e","x">>] = Num(itemIndex)

ShadowsIndexLast(child, parent, asName, item, itemIndex) ==
  /\ SameElsewhere(child, parent, asName)
  /\ asName # <<"i","n","d","e","x">> => child.o[asName] = item
  /\ child.o[<<"i","n","d","e","x">>] = Num(itemIndex)

\* C15 as stated: the scope of the item at position i of an iteration has
\* the entries of the parent scope, except that the entry named by the as
\* attribute is the item and the entry index is the position.
C15_ChildScopeBindsItemAndIndex ==
  \A n \in EachElements(doc) :
    Iterates(n) =>
      \A i \in 1..Len(EachAttr(n, <<"f","r","o","m">>).a) :
        ShadowsAsStated(
          ItemScope(rscope, EachAttr(n, <<"a","s">>), EachAttr(n, <<"f","r","o","m">>).a[i], i - 1),
          rscope, JSString(EachAttr(n, <<"a","s">>)), EachAttr(n, <<"f","r","o","m">>).a[i], i - 1)

\* C15 as the code has it: the entry index is the position; the entry named
\* by the as attribute is the item unless that name is index; every other
\* entry is the parent's.
C15_ChildScopeIndexWins ==
  \A n \in EachElements(doc) :
    Iterates(n) =>
      \A i \in 1..Len(EachAttr(n, <<"f","r","o","m">>).a) :
        ShadowsIndexLast(
          ItemScope(rscope, EachAttr(n, <<"a","s">>), EachAttr(n, <<"f","r","o","m">>).a[i], i - 1),
          rscope, JSString(EachAttr(n, <<"a","s">>)), EachAttr(n, <<"f","r","o","m">>).a[i], i - 1)

\* C15 witness: an iteration over two items whose binding name is one the
\* parent scope has too, rendered once for each item.
C15_TwoItemsShadowParentEntry ==
  \E n \in EachElements(doc) :
    /\ Iterates(n)
    /\ JSString(EachAttr(n, <<"a","s">>)) \in DOMAIN rscope.o
    /\ Len(EachAttr(n, <<"f","r","o","m">>).a) = 2
    /\ Len(output) = 2

\* The positions of the Each elements among the children of the root.
EachPositions(ast) ==
  {p \in 1..Len(GetProp(ast, <<"c","h","i","l","d","r","e","n">>).a) :
     GetProp(ast, <<"c","h","i","l","d","r","e","n">>).a[p] \in EachElements(ast)}

\* The committed item subtrees of the Each element whose key is key, in
\* output order.
ItemsOf(outs, key) ==
  LET Under(o) == /\ o.el = <<"E","a","c","h","I","t","e","m">>
                  /\ Len(o.key) = Len(key) + 1
                  /\ SubSeq(o.key, 1, Len(key)) = key
  IN  SelectSeq(outs, Under)

\* What rendering the children of n for the item at position i gives.
ItemRendering(n, key, fromArray, asName, i) ==
  EachItem(n, Append(key, JSString(ItemKey(fromArray[i], i - 1))),
           ItemScope(rscope, asName, fromArray[i], i - 1), <<>>)

RendersEachItem(n, key, items) ==
  IF Iterates(n)
    THEN /\ Len(items) = Len(EachAttr(n, <<"f","r","o","m">>).a)
         /\ \A i \in 1..Len(items) :
              items[i] = ItemRendering(n, key, EachAttr(n, <<"f","r","o","m">>).a,
                                       EachAttr(n, <<"a","s">>), i)
    ELSE items = <<>>

\* C16: in the committed output an Each element whose from attribute is an
\* array of N items and whose as attribute is non-empty has N item subtrees,
\* the k-th the rendering of its children with the k-th item bound and index
\* k, in array order; with any other from or without as it has none.
C16_EachRendersEveryItemInOrder ==
  \A p \in EachPositions(doc) :
    RendersEachItem(GetProp(doc, <<"c","h","i","l","d","r","e","n">>).a[p], << <<"r","o","o","t">>, IntToStr(p - 1) >>,
                    ItemsOf(output, << <<"r","o","o","t">>, IntToStr(p - 1) >>))

\* ------------------------------------------------------------------------
\* Element names
\* ------------------------------------------------------------------------
JsxTypes == { Str(<<"m","d","x","_","j","s","x","_","e","l","e","m","e","n","t">>), Str(<<"m","d","x","_","j","s","x","_","s","e","l","f","_","c","l","o","s","i","n","g">>) }

\* The elements among the children of the root of ast.
JsxChildren(ast) ==
  {c \in {GetProp(ast, <<"c","h","i","l","d","r","e","n">>).a[i] : i \in 1..Len(GetProp(ast, <<"c","h","i","l","d","r","e","n">>).a)} :
     GetProp(c, <<"t","y","p","e">>) \in JsxTypes}

\* How the output of one element was produced.
ResolutionOf(outs) ==
  IF outs = <<>> \/ outs[1].el = <<"E","a","c","h","I","t","e","m">> THEN "iteration"
  ELSE IF outs[1].el \in BuiltinNames THEN "builtin"
  ELSE IF outs[1].el = <<"i","m","p","o","r","t","e","d">> THEN "import"
  ELSE "unknown"

\* The order of resolution: built-in catalog, iteration construct, imports.
ResolutionByPriority(componentName, scope) ==
  IF BuiltinKey(componentName) # <<>> THEN "builtin"
  ELSE IF ToLowerCase(componentName) = <<"e","a","c","h">> THEN "iteration"
  ELSE IF Truthy(ImportedAst(scope, componentName)) THEN "import"
  ELSE "unknown"

\* The placeholder of an unknown element that has children holds their
\* rendering.
PlaceholderKeepsChildren(n, outs) ==
  (ResolutionOf(outs) = "unknown" /\ GetProp(n, <<"t","y","p","e">>) = Str(<<"m","d","x","_","j","s","x","_","e","l","e","m","e","n","t">>))
    => outs[1].kids = renderChildren(GetProp(n, <<"c","h","i","l","d","r","e","n">>), << <<"r","o","o","t">> >>, rscope, <<>>)

\* When the last child of the root is a text expression, the last node of
\* the committed output is its text.
LastSiblingRendered ==
  GetProp(GetProp(doc, <<"c","h","i","l","d","r","e","n">>).a[Len(GetProp(doc, <<"c","h","i","l","d","r","e","n">>).a)], <<"t","y","p","e">>)
      = Str(<<"m","d","x","_","t","e","x","t","_","e","x","p","r","e","s","s","i","o","n">>)
    => output # <<>> /\ output[Len(output)].el = <<"t","e","x","t">>

\* C17: every element of the document is rendered as its name resolves in
\* the order built-in, iteration construct, import, unknown; an unknown
\* element renders its children, and the sibling after the elements is
\* rendered.
C17_NameResolvedByPriority ==
  \A n \in JsxChildren(doc) :
    /\ ResolutionOf(NodeRenderer(n, << <<"r","o","o","t">> >>, rscope, <<>>))
         = ResolutionByPriority(ComponentName(n), rscope)
    /\ PlaceholderKeepsChildren(n, NodeRenderer(n, << <<"r","o","o","t">> >>, rscope, <<>>))
    /\ LastSiblingRendered

\* ------------------------------------------------------------------------
\* The event of an action
\* ------------------------------------------------------------------------
\* The base of the run: what actionDef.base evaluates to, parsed when it is
\* a string, the empty object when that fails or when it is no object.
BaseMembers ==
  Members(IF IsStr(evaluate(GetProp(actDef, <<"b","a","s","e">>).s, actScope))
            THEN Caught(JSONParse(evaluate(GetProp(actDef, <<"b","a","s","e">>).s, actScope).s), EmptyObj)
          ELSE IF evaluate(GetProp(actDef, <<"b","a","s","e">>).s, actScope).t = "object"
            THEN evaluate(GetProp(actDef, <<"b","a","s","e">>).s, actScope)
          ELSE EmptyObj)

\* The entries of the resolved content of the run: those of a mapping, or of
\* the mapping a string is the JSON text of.
ContentMembersOf(content) ==
  IF content.t = "object" THEN content.o
  ELSE IF IsStr(content) /\ Caught(JSONParse(content.s), Undef).t = "object"
    THEN JSONParse(content.s).o
  ELSE <<>>

ContentMembers == ContentMembersOf(resolveActionValue(GetProp(actDef, <<"c","o","n","t","e","n","t">>), actScope))

\* The value the merge has for key k.
MergedValue(k) == IF k \in DOMAIN ContentMembers THEN ContentMembers[k] ELSE BaseMembers[k]

ExampleBase == [k \in {<<"a">>, <<"b">>} |-> IF k = <<"a">> THEN Str(<<"1">>) ELSE Str(<<"2">>)]
ExampleContent == [k \in {<<"b">>, <<"c">>} |-> IF k = <<"b">> THEN Str(<<"3">>) ELSE Str(<<>>)]

\* C18: the content of an event built with a base is the serialization of
\* the base entries overlaid with the resolved content entries, without the
\* keys whose value is the empty string; base {a:"1",b:"2"} with content
\* {b:"3",c:""} gives {"a":"1","b":"3"}; the scope still holds the base it
\* held.
C18_BaseMergedContentWins ==
  (template # Pending /\ Truthy(GetProp(actDef, <<"b","a","s","e">>))) =>
    /\ template.content =
         JSONStringify(Obj([k \in {x \in DOMAIN BaseMembers \cup DOMAIN ContentMembers :
                                     MergedValue(x) # Str(<<>>)} |-> MergedValue(k)]))
    /\ (BaseMembers = ExampleBase /\ ContentMembers = ExampleContent)
         => template.content = <<"{","\"","a","\"",":","\"","1","\"",",","\"","b","\"",":","\"","3","\"","}">>
    /\ GetProp(actScope, <<"q","u","e","r","i","e","s">>) \in ActionQueries

\* C18 witness: an event was built from the base {a:"1",b:"2"} held in the
\* scope as an object and the content {b:"3",c:""}.
C18_ExampleMerged ==
  /\ template # Pending
  /\ GetProp(actDef, <<"b","a","s","e">>) = Str(<<"q","u","e","r","i","e","s",".","p","r","o","f","i","l","e">>)
  /\ BaseMembers = ExampleBase
  /\ ContentMembers = ExampleContent
  /\ template.content = <<"{","\"","a","\"",":","\"","1","\"",",","\"","b","\"",":","\"","3","\"","}">>

\* What a leaf of an action's content stands for: the timestamp for now,
\* the identity for user and user.pubkey, the evaluated path for a string
\* that starts with form., state. or queries., and the value itself
\* otherwise.
LeafValue(leaf) ==
  IF IsStr(leaf) /\ leaf.s = <<"n","o","w">> THEN Num(clock)
  ELSE IF IsStr(leaf) /\ leaf.s \in { <<"u","s","e","r">>, <<"u","s","e","r",".","p","u","b","k","e","y">> } THEN GetProp(actScope, <<"u","s","e","r">>)
  ELSE IF IsStr(leaf) /\ \E prefix \in { <<"f","o","r","m",".">>, <<"s","t","a","t","e",".">>, <<"q","u","e","r","i","e","s",".">> } :
                           StartsWith(leaf.s, prefix)
    THEN evaluate(leaf.s, actScope)
  ELSE leaf

\* A mapping with every leaf replaced by what it stands for.
RECURSIVE LeafByLeaf(_)
LeafByLeaf(value) ==
  IF value.t = "object" THEN Obj([k \in DOMAIN value.o |-> LeafByLeaf(value.o[k])])
  ELSE LeafValue(value)

Declared(name) == GetProp(actDef, name)

\* C19: the content of an action is resolved leaf by leaf, mappings
\* recursively: the event built without a base carries the content with
\* every leaf replaced by what it stands for (a mapping serialized), and
\* every tag entry is the string of what it stands for.
C19_ContentResolvedLeafByLeaf ==
  template # Pending =>
    /\ resolveActionValue(Declared(<<"c","o","n","t","e","n","t">>), actScope) = LeafByLeaf(Declared(<<"c","o","n","t","e","n","t">>))
    /\ (~Truthy(Declared(<<"b","a","s","e">>)) /\ Declared(<<"c","o","n","t","e","n","t">>).t = "object")
         => template.content = JSONStringify(LeafByLeaf(Declared(<<"c","o","n","t","e","n","t">>)))
    /\ (~Truthy(Declared(<<"b","a","s","e">>)) /\ Declared(<<"c","o","n","t","e","n","t">>).t # "object")
         => template.content = JSString(LeafValue(Declared(<<"c","o","n","t","e","n","t">>)))
    /\ Truthy(Declared(<<"t","a","g","s">>)) =>
         \A i \in 1..Len(template.tags) : \A j \in 1..Len(template.tags[i]) :
           template.tags[i][j] = JSString(LeafValue(Declared(<<"t","a","g","s">>).a[i].a[j]))

\* C19 witness: an event whose content mapping had a form leaf, a state
\* leaf, now, user, a number, a boolean and a plain string.
C19_EveryKindOfLeafResolved ==
  /\ template # Pending
  /\ Declared(<<"k","i","n","d">>) = Str(<<"3","0","0","7","8">>)
  /\ clock = ClockStart
  /\ template.content =
       <<"{","\"","a","t","\"",":">> \o IntToStr(ClockStart) \o
       <<",","\"","b","\"",":","\"","3","\"",",","\"","b","y","\"",":","\"","p","k","1","\"",",","\"","l","i","t","\"",":","\"","h","e","l","l","o","\"",",","\"","n","\"",":","5",",","\"","t","\"",":","t","r","u","e",",","\"","t","i","t","l","e","\"",":","\"","G","u","e","s","t","b","o","o","k","\"","}">>
  /\ template.tags = << << <<"d">>, <<"p","k","1">> >>, << <<"t">>, <<"7">>, IntToStr(ClockStart) >> >>

\* typeof v === "number"
TypeofNumber(v) == v.t \in {"number", "nan"}

NumericString(v) == IsStr(v) /\ v.s # <<>> /\ AllDigits(v.s)

DeclaredRows == IF Truthy(Declared(<<"t","a","g","s">>)) THEN Len(Declared(<<"t","a","g","s">>).a) ELSE 0

\* C20: the event handed to the signer has exactly the fields kind, content,
\* tags and created_at; kind is a number, the declared number or the number
\* a declared numeric string denotes; content is a string, a mapping
\* serialized; tags has one row of strings for each declared row and is
\* empty when none is declared; created_at is a whole number of seconds.
C20_EventHasFourTypedFields ==
  template # Pending =>
    /\ DOMAIN template = {"kind", "content", "tags", "created_at"}
    /\ TypeofNumber(template.kind)
    /\ IsNum(Declared(<<"k","i","n","d">>)) => template.kind = Declared(<<"k","i","n","d">>)
    /\ NumericString(Declared(<<"k","i","n","d">>))
         => template.kind = Num(DigitsVal(Declared(<<"k","i","n","d">>).s, 0))
    /\ template.content # <<"[","o","b","j","e","c","t"," ","O","b","j","e","c","t","]">>
    /\ (Declared(<<"c","o","n","t","e","n","t">>).t = "object" \/ Truthy(Declared(<<"b","a","s","e">>)))
         => Head(template.content) = "{"
    /\ Len(template.tags) = DeclaredRows
    /\ \A i \in 1..Len(template.tags) :
         Len(template.tags[i]) = Len(Declared(<<"t","a","g","s">>).a[i].a)
    /\ template.created_at \in Nat
    /\ template.created_at = clock

\* C20 witness: an event built from a kind declared as a numeric string, a
\* content mapping and two tag rows.
C20_NumericStringKindEvent ==
  /\ template # Pending
  /\ template.kind = Num(30078)
  /\ Head(template.content) = "{"
  /\ Len(template.tags) = 2
  /\ template.created_at = ClockStart + 1

\* ------------------------------------------------------------------------
\* Failures of an action
\* ------------------------------------------------------------------------
\* What the user is shown: the texts handed to alert().
Alerts ==
  { "alert: Login with extension to publish", "alert: signer error",
    "alert: Failed to publish to any relay", "alert: publish error" }

\* C21: every executeAction call that ends in a failure (an unknown action
\* name, a signer error, a publish no destination accepted, a publish error)
\* ends with a message shown to the user.
C21_FailureShownToUser ==
  lastDone.outcome \in Failures \cup {"unknownAction"} => lastDone.message \in Alerts

\* ------------------------------------------------------------------------
\* The default operator
\* ------------------------------------------------------------------------
\* The alternatives of the evaluated expression, left to right.
Alternatives == splitByDefault(Cleaned(expr))

\* What alternative i evaluates to.
AlternativeValue(i) == evaluatePart(Trim(Alternatives[i]), escope)

\* Not absent, not null and not the empty string.
IsPresent(v) == v \notin { Undef, Null, Str(<<>>) }

TruncateLimits ==
  { <<<<"n","o","t","e",".","c","o","n","t","e","n","t"," ","|"," ","t","r","u","n","c","a","t","e","(","5",")">>, 5>>, <<<<"n","o","t","e",".","c","o","n","t","e","n","t"," ","|"," ","t","r","u","n","c","a","t","e","(","1","0",")">>, 10>>,
    <<<<"n","o","t","e",".","c","o","n","t","e","n","t"," ","|"," ","t","r","u","n","c","a","t","e","(","2",")">>, 2>>, <<<<"n","o","t","e",".","c","o","n","t","e","n","t"," ","|"," ","t","r","u","n","c","a","t","e","(","1","1",")">>, 11>>,
    <<<<"'","o","k",".",".",".","'"," ","|"," ","t","r","u","n","c","a","t","e","(","1","0",")">>, 10>> }

\* The value the filter of the evaluated expression is applied to.
FilteredValue == evaluatePart(Trim(splitByPipe(expr)[1]), escope)

EndsInDots(s) == Len(s) >= 3 /\ SubSeq(s, Len(s) - 2, Len(s)) = <<".",".",".">>

\* C23: a text longer than the limit n is truncated to at most n characters,
\* and the result of truncate ends in "..." exactly when the text was longer
\* than n.
C23_TruncateWithinLimit ==
  \A c \in TruncateLimits :
    (expr = c[1] /\ result # Pending /\ IsStr(FilteredValue)) =>
      /\ IsStr(result)
      /\ Len(FilteredValue.s) > c[2] => Len(result.s) <= c[2]
      /\ EndsInDots(result.s) <=> Len(FilteredValue.s) > c[2]

\* C24: note.content | truncate(10) over the note "Hello World" gives
\* "Hello Worl...".
C24_TruncateTenOfHelloWorld ==
  ( /\ expr = <<"n","o","t","e",".","c","o","n","t","e","n","t"," ","|"," ","t","r","u","n","c","a","t","e","(","1","0",")">>
    /\ GetProp(GetProp(escope, <<"n","o","t","e">>), <<"c","o","n","t","e","n","t">>) = Str(<<"H","e","l","l","o"," ","W","o","r","l","d">>)
    /\ result # Pending )
  => result = Str(<<"H","e","l","l","o"," ","W","o","r","l",".",".",".">>)

\* ------------------------------------------------------------------------
\* Relative dates
\* ------------------------------------------------------------------------
\* The text the relative format is to give for a difference of d seconds.
RelativeText(d) ==
  CASE d < 60 -> <<"j","u","s","t"," ","n","o","w">>
    [] 60 <= d /\ d < 3600 -> IntToStr(d \div 60) \o <<"m"," ","a","g","o">>
    [] 3600 <= d /\ d < 86400 -> IntToStr(d \div 3600) \o <<"h"," ","a","g","o">>
    [] 86400 <= d /\ d < 604800 -> IntToStr(d \div 86400) \o <<"d"," ","a","g","o">>
    [] OTHER -> IntToStr(d \div 604800) \o <<"w"," ","a","g","o">>

RejectedTrigger ==
  /\ lastDone' # lastDone
  /\ lastDone'.outcome = "readonly"

AtSigner(b) == { e \in BagToSet(b) : e.stage = "signing" }
AtPublish(b) == { e \in BagToSet(b) : e.stage = "publishing" }

\* The executions the step brought to pool.publish.
NewAtPublish ==
  { e \in AtPublish(inflight') : CopiesIn(e, inflight') > CopiesIn(e, inflight) }

\* C27: an execution reaches pool.publish only from the signer, with exactly
\* what the signer returned for its template (an execution starts at the signer,
\* never at pool.publish), and the step in which the signer rejects brings no
\* execution to pool.publish.
C27_SignerThenPublish ==
  [][ /\ \A e \in NewAtPublish :
           \E s \in AtSigner(inflight) :
             /\ CopiesIn(s, inflight') = CopiesIn(s, inflight) - 1
             /\ e.action = s.action
             /\ e.event = SignEvent(s.event)
      /\ BagCardinality(inflight') > BagCardinality(inflight) =>
           \A e \in BagToSet(inflight') :
             CopiesIn(e, inflight') > CopiesIn(e, inflight) => e.stage = "signing"
      /\ lastDone'.outcome = "signerError" =>
           /\ NewAtPublish = {}
           /\ BagCardinality(inflight') = BagCardinality(inflight) - 1
           /\ \E s \in AtSigner(inflight) :
                CopiesIn(s, inflight') = CopiesIn(s, inflight) - 1 ]_vars

\* C27 witness: an execution is suspended at pool.publish with a signed
\* event.
C27_SignedAtPublish ==
  \E e \in AtPublish(inflight) :
    /\ e.action = <<"p","o","s","t">>
    /\ e.event.sig = "sig"
    /\ e.event.content = <<"d","r","a","f","t">>

\* ------------------------------------------------------------------------
\* The depth of imported rendering
\* ------------------------------------------------------------------------
\* The largest number of imported components' outputs nested in one another.
RECURSIVE ImportDepth(_)
ImportDepth(outs) ==
  LET Below(i) == ImportDepth(outs[i].kids) + (IF outs[i].el = <<"i","m","p","o","r","t","e","d">> THEN 1 ELSE 0)
  IN  IF outs = <<>> THEN 0
      ELSE CHOOSE d \in { Below(i) : i \in 1..Len(outs) } :
             \A i \in 1..Len(outs) : Below(i) <= d

\* C28: rendering ends for every document and every set of imported
\* definitions, those that name themselves or one another included, and
\* imported components' outputs are never nested in one another.
C28_ImportDepthAtMostOne == ImportDepth(output) <= 1

\* ------------------------------------------------------------------------
\* The content of an action that names a form field
\* ------------------------------------------------------------------------
\* The executions of the action post the step handed to the signer.
NewPosts ==
  { e \in AtSigner(inflight') :
      e.action = <<"p","o","s","t">> /\ CopiesIn(e, inflight') > CopiesIn(e, inflight) }

\* C29: the action post declares content: form.content; the event handed to
\* the signer carries the text the field content holds at the trigger,
\* whatever that text is (the empty text included), and an edit of the form
\* leaves the events of the suspended executions as they are.
C29_ContentIsFieldValue ==
  [][ /\ \A e \in NewPosts :
           <<"c","o","n","t","e","n","t">> \in DOMAIN form => e.event.content = JSString(form[<<"c","o","n","t","e","n","t">>])
      /\ (form' # form /\ BagCardinality(inflight') = BagCardinality(inflight))
           => inflight' = inflight ]_vars

\* ------------------------------------------------------------------------
\* The queries object
\* ------------------------------------------------------------------------
\* The entries of scope.queries that are defined.
DefinedEntries ==
  { k \in {<<"p","r","o","f","i","l","e">>, <<"e","v","e","n","t">>, <<"e","v","e","n","t","s">>, <<"a","d","d","r","e","s","s">>} : GetProp(scopeQueries, k) # Undef }

\* The query keys in the order the code looks at them, and the entry of
\* scope.queries each fills.
KeyOrder == << <<"p","r","o","f","i","l","e">>, <<"e","v","e","n","t">>, <<"a","d","d","r","e","s","s">>, <<"f","i","l","t","e","r">> >>
EntryOfKey(k) == IF k = <<"f","i","l","t","e","r">> THEN <<"e","v","e","n","t","s">> ELSE k
Declares(i) == ~IsNullish(declared) /\ Truthy(GetProp(declared, KeyOrder[i]))

\* C30: at most one of queries.profile, queries.event, queries.events and
\* queries.address is defined, and a defined one is the entry of the first
\* key the frontmatter declares in the order profile, event, address, filter,
\* however many keys it declares.
C30_AtMostOneQueryEntry ==
  /\ Cardinality(DefinedEntries) <= 1
  /\ \A k \in DefinedEntries :
       \E i \in 1..4 : /\ Declares(i)
                       /\ \A j \in 1..(i - 1) : ~Declares(j)
                       /\ k = EntryOfKey(KeyOrder[i])

\* C30 witness: the frontmatter declares event, address and filter, a list
\* was delivered, and only queries.event is defined.
C30_EventBeforeFilter ==
  /\ declared = DeclaredKeys("empty", TRUE, TRUE, TRUE)
  /\ IsArr(delivered)
  /\ DefinedEntries = {<<"e","v","e","n","t">>}
====
